---------------------------- MODULE Spec2Model ----------------------------
(***************************************************************************)
(* A model of the drawing-ratio exercise: the DrawingCanvas stroke recorder *)
(* (both variants of src/src/drawing.js), the shape geometry of the shape   *)
(* module (src/unnamed/part_000) and the analyzer of src/src/main.js        *)
(* (analyzeDrawing, computeShapeOverlap, _floodFillExterior).               *)
(*                                                                          *)
(* Lengths are integers in sub-pixel units: one canvas pixel is PXU units   *)
(* and pixel i covers [i*PXU, (i+1)*PXU) with its centre at (2i+1)*SubPx.   *)
(* The browser's 2D canvas is not part of the repository; it is modelled    *)
(* by scan conversion at pixel centres: fill() and stroke() paint a pixel   *)
(* exactly when its centre lies inside the path (for a stroke of width W    *)
(* with round caps and joins: within W/2 of the polyline).  A bitmap is     *)
(* represented by the set of its dark pixels (red channel < 64), a pixel    *)
(* by its index y*width + x as in the source.                               *)
(***************************************************************************)
EXTENDS Integers, Sequences, FiniteSets, TLC

\* ---------------------------------------------------------------- bounds
SubPx == 8          \* half the number of sub-pixel units per pixel
MaxStrokes == 2     \* committed strokes kept by the DrawingCanvas model
MaxPoints == 2      \* points per stroke
MaxFrameRedraws == 2 \* render passes counted within one display frame
MaxOps == 8         \* handler and method calls of one DrawingCanvas session

PXU == 2 * SubPx

\* ------------------------------------------------------ program constants
CANVAS_RES == 700
DEFAULT_PEN_SIZE == 3
DEFAULT_ERASER_SIZE == 15
DARK == 64          \* a pixel is ink when its red channel is below this

\* ------------------------------------------------------------ arithmetic
Min(a, b) == IF a < b THEN a ELSE b
Max(a, b) == IF a > b THEN a ELSE b
Abs(a) == IF a < 0 THEN -a ELSE a

\* floor(a / b) for b > 0 and any a (\div already floors in TLA+).
FloorDiv(a, b) == a \div b

\* Math.round(a / b) for b > 0: floor(a/b + 1/2).
RoundDiv(a, b) == (2 * a + b) \div (2 * b)

RECURSIVE IsqrtIn(_, _, _)
IsqrtIn(lo, hi, n) ==
  IF lo >= hi THEN lo
  ELSE LET mid == (lo + hi + 1) \div 2
       IN IF mid * mid <= n THEN IsqrtIn(mid, hi, n) ELSE IsqrtIn(lo, mid - 1, n)

\* floor(sqrt(n)) for 0 <= n < 2^30.
Isqrt(n) == IsqrtIn(0, 32767, n)

\* ------------------------------------------------- the 2D canvas (browser)
\* |c| <= r * sqrt(len2), exactly, given L = Isqrt(len2), without squaring c.
WithinOfLine(c, r, len2, L) ==
  LET a == Abs(c) IN
  IF a <= r * L THEN TRUE
  ELSE IF a >= r * (L + 1) THEN FALSE
  ELSE LET k == a - r * L IN 2 * r * L * k + k * k <= r * r * (len2 - L * L)

\* The point (cx, cy) is within r of the segment from (ax, ay) to (bx, by).
NearSegment(cx, cy, ax, ay, bx, by, r, len2, L) ==
  LET dx == bx - ax
      dy == by - ay
      ex == cx - ax
      ey == cy - ay
      dot == ex * dx + ey * dy
  IN IF dot <= 0 THEN ex * ex + ey * ey <= r * r
     ELSE IF dot >= len2 THEN (cx - bx) * (cx - bx) + (cy - by) * (cy - by) <= r * r
     ELSE WithinOfLine(ex * dy - ey * dx, r, len2, L)

\* Pixel columns (or rows) of a canvas of side `size` whose centres can lie in
\* [lo, hi] (sub-pixel units).
PixelRange(lo, hi, size) ==
  Max(0, FloorDiv(lo, PXU)) .. Min(size - 1, FloorDiv(hi, PXU))

\* The pixels painted by stroking the segment a-b with line width 2r and round
\* caps (a disc of radius r when a = b), on a canvas of side `size`.
SegmentPixels(a, b, r, size) ==
  LET len2 == (b.x - a.x) * (b.x - a.x) + (b.y - a.y) * (b.y - a.y)
      L == Isqrt(len2)
  IN { j * size + i :
         <<i, j>> \in { q \in PixelRange(Min(a.x, b.x) - r, Max(a.x, b.x) + r, size)
                             \X PixelRange(Min(a.y, b.y) - r, Max(a.y, b.y) + r, size) :
                        NearSegment((2 * q[1] + 1) * SubPx, (2 * q[2] + 1) * SubPx,
                                    a.x, a.y, b.x, b.y, r, len2, L) } }

\* arc(x, y, r, 0, 2*PI) then fill(): a filled disc.
DiscPixels(p, r, size) == SegmentPixels(p, p, r, size)


\* ------------------------------------------------------------ DrawingCanvas
VARIABLES
  variant,          \* which DrawingCanvas of drawing.js: "plain" or "eraser"
  strokes,          \* this.strokes
  currentStroke,    \* this.currentStroke
  isDrawing,        \* this.isDrawing
  activePointerId,  \* this._activePointerId (0 for null)
  hasPen,           \* this._hasPen
  overlayFn,        \* this._overlayFn
  rafId,            \* this._rafId (0 for null)
  mode,             \* this.mode
  canvas,           \* what the last _redraw painted: strokes, stroke in progress, overlay
  rafCallbacks,     \* animation-frame callbacks the browser holds
  redrawsInFrame,   \* _redraw passes since the last display frame began
  lastBBox,         \* what getBoundingBox returned, if it was the last call
  ops               \* handler and method calls so far

dcVars == <<variant, strokes, currentStroke, isDrawing, activePointerId, hasPen,
            overlayFn, rafId, mode, canvas, rafCallbacks, redrawsInFrame, lastBBox, ops>>

\* --------------------------------------------------------- the brush sizes
VARIABLES
  dcBrushSize,      \* this.brushSize of the plain variant (0 in the other)
  penSize,          \* this.penSize of the eraser-aware variant (0 in the other)
  eraserSize,       \* this.eraserSize of the eraser-aware variant (0 in the other)
  paintedBrush      \* the brushSize the last _redraw of the plain variant painted with

brushVars == <<dcBrushSize, penSize, eraserSize, paintedBrush>>

\* null, for a variable that otherwise holds a record; a null id is 0.
Null == [null |-> TRUE]

\* lastBBox when the last call was not getBoundingBox.
NoCall == [nocall |-> TRUE]

\* getBoundingClientRect() of the canvas element: shown at half its resolution.
CanvasRect == [left |-> 0, top |-> 0, width |-> 350, height |-> 350]

\* The pointers of the device and the pressures they report.
\* Pressure is counted in halves: 1 is 0.5, 2 is 1.0, 0 is "not reported".
Pointers == { [pointerId |-> 1, pointerType |-> "pen", pressure |-> 1],
              [pointerId |-> 2, pointerType |-> "touch", pressure |-> 0] }

\* A stroke starts at DownPoint and is dragged to MovePoint; neither lies
\* above and left of the other.
DownPoint == <<173, 176>>
MovePoint == <<177, 173>>
EventsAt(c) ==
  { [pointerId |-> p.pointerId, pointerType |-> p.pointerType, pressure |-> p.pressure,
     clientX |-> c[1], clientY |-> c[2]] : p \in Pointers }

ToCanvas(e) ==
  [ x |-> ((e.clientX - CanvasRect.left) * CANVAS_RES * PXU) \div CanvasRect.width,
    y |-> ((e.clientY - CanvasRect.top) * CANVAS_RES * PXU) \div CanvasRect.height,
    pressure |-> IF e.pressure > 0 THEN e.pressure ELSE 1 ]

GetBrushSize == IF mode = "pen" THEN penSize ELSE eraserSize

IsPalmRejected(e) ==
  \/ isDrawing /\ e.pointerType = "touch" /\ activePointerId # e.pointerId
  \/ e.pointerType = "touch" /\ hasPen

\* The pixels one stroke paints: a disc of radius brushSize * pressure for a
\* single point, else one round-capped segment per pair of points, of width
\* brushSize * mean pressure * 2.
StrokePixels(points, brushSize) ==
  IF Len(points) = 0 THEN {}
  ELSE IF Len(points) = 1
    THEN DiscPixels(points[1], brushSize * points[1].pressure * SubPx, CANVAS_RES)
    ELSE UNION { SegmentPixels(points[i - 1], points[i],
                   (brushSize * (points[i - 1].pressure + points[i].pressure) * SubPx) \div 2,
                   CANVAS_RES) : i \in 2..Len(points) }

\* _drawStroke on the set of dark pixels: ink darkens, the eraser paints white.
\* The plain variant has no eraser and one brush size for every stroke.
DrawStroke(v, dark, stroke) ==
  IF v = "plain" THEN dark \cup StrokePixels(stroke.points, DEFAULT_PEN_SIZE)
  ELSE IF stroke.isEraser THEN dark \ StrokePixels(stroke.points, stroke.brushSize)
  ELSE dark \cup StrokePixels(stroke.points, stroke.brushSize)

RECURSIVE DrawStrokes(_, _, _, _)
DrawStrokes(v, dark, ss, i) ==
  IF i > Len(ss) THEN dark ELSE DrawStrokes(v, DrawStroke(v, dark, ss[i]), ss, i + 1)

\* The pixels the dashes of strokeRect(x, y, w, h) cover: line width 1.5,
\* dash pattern [4, 3] running clockwise from (x, y).
DashedRectPixels(x, y, w, h) ==
  LET hw == (3 * SubPx) \div 2
      on(d) == d >= 0 /\ (d % (7 * PXU)) < 4 * PXU
      cxs == PixelRange(x - hw, x + w + hw, CANVAS_RES)
      cys == PixelRange(y - hw, y + h + hw, CANVAS_RES)
  IN { j * CANVAS_RES + i :
         <<i, j>> \in { q \in cxs \X cys :
            LET cx == (2 * q[1] + 1) * SubPx
                cy == (2 * q[2] + 1) * SubPx
            IN \/ Abs(cy - y) <= hw /\ cx >= x /\ cx <= x + w /\ on(cx - x)
               \/ Abs(cx - (x + w)) <= hw /\ cy >= y /\ cy <= y + h /\ on(w + cy - y)
               \/ Abs(cy - (y + h)) <= hw /\ cx >= x /\ cx <= x + w /\ on(w + h + x + w - cx)
               \/ Abs(cx - x) <= hw /\ cy >= y /\ cy <= y + h /\ on(2 * w + h + y + h - cy) } }

\* The overlay analyze() installs paints only colours with red >= 64; of its
\* parts the dashed rectangle around the drawn bounding box is the one that
\* runs over the ink.
OverlayPixels(fn) == DashedRectPixels(fn.drawn.minX, fn.drawn.minY, fn.drawn.w, fn.drawn.h)

\* _redraw: white background, grid dots (red 221, never dark), the committed
\* strokes in order, the stroke in progress, the overlay.  The result is the
\* set of dark pixels of the canvas.
Redraw(v, ss, cur, fn) ==
  LET committed == DrawStrokes(v, {}, ss, 1)
      withCur == IF cur # Null THEN DrawStroke(v, committed, cur) ELSE committed
  IN IF fn # Null THEN withCur \ OverlayPixels(fn) ELSE withCur

\* What a _redraw leaves on the canvas, and the dark pixels of a canvas.
Painted(ss, cur, fn) == [strokes |-> ss, currentStroke |-> cur, overlayFn |-> fn]
DarkPixels(v, cv) == Redraw(v, cv.strokes, cv.currentStroke, cv.overlayFn)

Box(minX, maxX, minY, maxY) ==
  [ minX |-> minX, maxX |-> maxX, minY |-> minY, maxY |-> maxY,
    w |-> maxX - minX, h |-> maxY - minY,
    cx |-> (minX + maxX) \div 2, cy |-> (minY + maxY) \div 2 ]

SetMin(S) == CHOOSE m \in S : \A n \in S : m <= n
SetMax(S) == CHOOSE m \in S : \A n \in S : m >= n

\* getBoundingBox reading only the stroke committed last.
PointsBoundingBoxOfLast(ss) ==
  IF Len(ss) = 0 THEN Null
  ELSE LET pts == { ss[Len(ss)].points[i] : i \in 1..Len(ss[Len(ss)].points) }
       IN Box(SetMin({ p.x : p \in pts }), SetMax({ p.x : p \in pts }),
              SetMin({ p.y : p \in pts }), SetMax({ p.y : p \in pts }))

\* getBoundingBox of the plain variant: the extent of the committed points.
PointsBoundingBox(ss) ==
  IF Len(ss) = 0 THEN Null
  ELSE LET pts == UNION { { ss[k].points[i] : i \in 1..Len(ss[k].points) } : k \in 1..Len(ss) }
       IN Box(SetMin({ p.x : p \in pts }), SetMax({ p.x : p \in pts }),
              SetMin({ p.y : p \in pts }), SetMax({ p.y : p \in pts }))

\* getBoundingBox of the eraser-aware variant, after the flush: the extent of
\* the dark pixels of the canvas, in pixel indices (here in sub-pixel units).
PixelBoundingBox(dark) ==
  IF dark = {} THEN Null
  ELSE LET xs == { p % CANVAS_RES : p \in dark }
           ys == { p \div CANVAS_RES : p \in dark }
       IN Box(SetMin(xs) * PXU, SetMax(xs) * PXU, SetMin(ys) * PXU, SetMax(ys) * PXU)

\* ------------------------------------------- the analyzer's working state
VARIABLES
  pc,        \* the step the analyzer run is at
  exercise,  \* { shapeType, ratio, points }
  refBBox,   \* shapeBBox(exercise)
  drawnBBox, \* the drawn bounding box handed to computeShapeOverlap
  drawn,     \* the strokes handed to computeShapeOverlap
  canvA,     \* canvas A: the path filled on it
  canvB,     \* canvas B: the paths stroked on it
  imgW,      \* w of the bitmaps handed to _floodFillExterior
  imgH,      \* h of the bitmaps handed to _floodFillExterior
  dataA,     \* imgA.data, the red channel: pixel index -> 0..255
  dataB,     \* imgB.data, the red channel
  exterior,  \* the pixels i with exterior[i] = 1
  queue,     \* the worklist of _floodFillExterior
  head,      \* its head index
  counts,    \* { intersection, union }
  result     \* { shapeScore, shapeDetail }

anVars == <<pc, exercise, refBBox, drawnBBox, drawn, canvA, canvB, imgW, imgH, dataA, dataB,
            exterior, queue, head, counts, result>>

\* ------------------------------------------------ the page around the canvas
VARIABLES
  analysis,      \* what analyzeDrawing returned to the analyze() in progress
  scores,        \* the score panel: Null after resetScores, else what showScores wrote
  ratioRevealed, \* the ratio display is filled in and the reveal button hidden
  analyzeCalls   \* how many times analyze() has been entered

uiVars == <<analysis, scores, ratioRevealed, analyzeCalls>>

\* ------------------------------------------- generateComplexPoints at work
VARIABLES
  perimeterPerEdge, \* its argument
  numInterior,      \* the interior points still to add; Null before it is drawn
  pts               \* the array pts, then the array returned

\* ---------------------------------------------------- generateRatio at work
VARIABLES
  difficulty,       \* its argument
  branch,           \* the branch of the if chain it has taken; Null before
  ratio             \* w and h as they are assigned, in tenths; then the object returned

ratioVars == <<difficulty, branch, ratio>>

\* ------------------------------------------- the two path tracers at work
VARIABLES
  shownPath,        \* [calls |-> the canvas calls drawPath made]; Null before it ran
  maskPath          \* [calls |-> those _renderFilledNorm made]; Null before it ran

pathVars == <<shownPath, maskPath>>

genVars == <<perimeterPerEdge, numInterior, pts, ratioVars, pathVars>>

vars == <<dcVars, anVars, uiVars, genVars, brushVars>>

\* ------------------------------------------------- DrawingCanvas: handlers
\* _scheduleRedraw without its test of _rafId: every call requests a frame.
ScheduleRedrawUnguarded == rafId' = 1 /\ rafCallbacks' = rafCallbacks + 1

\* _scheduleRedraw: request one animation frame unless one is outstanding.
ScheduleRedraw ==
  IF rafId = 0
    THEN rafId' = 1 /\ rafCallbacks' = rafCallbacks + 1
    ELSE UNCHANGED <<rafId, rafCallbacks>>

NoRedraw == UNCHANGED <<canvas, redrawsInFrame>>

\* _onDown of the plain variant: every pointerdown starts a new stroke.
OnDownPlain(e) ==
  /\ isDrawing' = TRUE
  /\ overlayFn' = Null
  /\ currentStroke' = [points |-> <<ToCanvas(e)>>]
  /\ ScheduleRedraw
  /\ UNCHANGED <<activePointerId, hasPen>>

\* _onDown of the eraser-aware variant without its test of isDrawing: the
\* latest accepted pointer wins.
OnDownEraserLastWins(e) ==
  IF IsPalmRejected(e)
    THEN UNCHANGED <<isDrawing, overlayFn, currentStroke, activePointerId, hasPen,
                     rafId, rafCallbacks>>
    ELSE /\ hasPen' = (hasPen \/ e.pointerType = "pen")
         /\ activePointerId' = e.pointerId
         /\ isDrawing' = TRUE
         /\ overlayFn' = Null
         /\ currentStroke' = [points |-> <<ToCanvas(e)>>,
                              isEraser |-> (mode = "eraser"),
                              brushSize |-> GetBrushSize]
         /\ ScheduleRedraw

\* _onDown of the eraser-aware variant: palm rejection, first pointer wins.
OnDownEraser(e) ==
  IF IsPalmRejected(e)
    THEN UNCHANGED <<isDrawing, overlayFn, currentStroke, activePointerId, hasPen,
                     rafId, rafCallbacks>>
    ELSE /\ hasPen' = (hasPen \/ e.pointerType = "pen")
         /\ IF isDrawing
              THEN UNCHANGED <<isDrawing, overlayFn, currentStroke, activePointerId,
                               rafId, rafCallbacks>>
              ELSE /\ activePointerId' = e.pointerId
                   /\ isDrawing' = TRUE
                   /\ overlayFn' = Null
                   /\ currentStroke' = [points |-> <<ToCanvas(e)>>,
                                        isEraser |-> (mode = "eraser"),
                                        brushSize |-> GetBrushSize]
                   /\ ScheduleRedraw

PointerDown(e) ==
  /\ IF variant = "plain" THEN OnDownPlain(e) ELSE OnDownEraser(e)
  /\ lastBBox' = NoCall
  /\ ops < MaxOps /\ ops' = ops + 1
  /\ NoRedraw
  /\ UNCHANGED <<variant, strokes, mode, anVars, uiVars, genVars, brushVars>>

\* _onMove.  With isDrawing set and no current stroke (clear() ran during the
\* stroke) the handler throws on this.currentStroke.points and changes nothing.
OnMove(e) ==
  IF ~isDrawing \/ (variant = "eraser" /\ e.pointerId # activePointerId)
    THEN UNCHANGED <<currentStroke, rafId, rafCallbacks>>
  ELSE IF currentStroke = Null
    THEN UNCHANGED <<currentStroke, rafId, rafCallbacks>>
    ELSE /\ currentStroke' =
              [currentStroke EXCEPT !.points = Append(@, ToCanvas(e))]
         /\ ScheduleRedraw

PointerMove(e) ==
  /\ currentStroke # Null => Len(currentStroke.points) < MaxPoints
  /\ OnMove(e)
  /\ lastBBox' = NoCall
  /\ ops < MaxOps /\ ops' = ops + 1
  /\ NoRedraw
  /\ UNCHANGED <<variant, strokes, isDrawing, activePointerId, hasPen, overlayFn, mode, anVars, uiVars, genVars, brushVars>>

\* _onUp, bound to pointerup and to pointercancel.
OnUp(e) ==
  IF ~isDrawing \/ (variant = "eraser" /\ e.pointerId # activePointerId)
    THEN UNCHANGED <<isDrawing, activePointerId, strokes, currentStroke, rafId, rafCallbacks>>
    ELSE /\ isDrawing' = FALSE
         /\ activePointerId' = IF variant = "eraser" THEN 0 ELSE activePointerId
         /\ strokes' = IF currentStroke # Null /\ Len(currentStroke.points) > 0
                         THEN Append(strokes, currentStroke)
                         ELSE strokes
         /\ currentStroke' = Null
         /\ ScheduleRedraw

PointerUp(e) ==
  /\ Len(strokes) < MaxStrokes
  /\ OnUp(e)
  /\ lastBBox' = NoCall
  /\ ops < MaxOps /\ ops' = ops + 1
  /\ NoRedraw
  /\ UNCHANGED <<variant, hasPen, overlayFn, mode, anVars, uiVars, genVars, brushVars>>

PointerCancel(e) ==
  /\ Len(strokes) < MaxStrokes
  /\ OnUp(e)
  /\ lastBBox' = NoCall
  /\ ops < MaxOps /\ ops' = ops + 1
  /\ NoRedraw
  /\ UNCHANGED <<variant, hasPen, overlayFn, mode, anVars, uiVars, genVars, brushVars>>

Clear ==
  /\ strokes' = <<>>
  /\ currentStroke' = Null
  /\ overlayFn' = Null
  /\ ScheduleRedraw
  /\ lastBBox' = NoCall
  /\ ops < MaxOps /\ ops' = ops + 1
  /\ NoRedraw
  /\ UNCHANGED <<variant, isDrawing, activePointerId, hasPen, mode, anVars, uiVars, genVars, brushVars>>

\* undo() taking the oldest stroke (shift) instead of the latest (pop).
UndoOldest ==
  /\ IF Len(strokes) > 0
       THEN strokes' = SubSeq(strokes, 2, Len(strokes)) /\ ScheduleRedraw
       ELSE UNCHANGED <<strokes, rafId, rafCallbacks>>
  /\ lastBBox' = NoCall
  /\ ops < MaxOps /\ ops' = ops + 1
  /\ NoRedraw
  /\ UNCHANGED <<variant, currentStroke, isDrawing, activePointerId, hasPen, overlayFn,
                 mode, anVars, uiVars, genVars, brushVars>>

Undo ==
  /\ IF Len(strokes) > 0
       THEN strokes' = SubSeq(strokes, 1, Len(strokes) - 1) /\ ScheduleRedraw
       ELSE UNCHANGED <<strokes, rafId, rafCallbacks>>
  /\ lastBBox' = NoCall
  /\ ops < MaxOps /\ ops' = ops + 1
  /\ NoRedraw
  /\ UNCHANGED <<variant, currentStroke, isDrawing, activePointerId, hasPen, overlayFn,
                 mode, anVars, uiVars, genVars, brushVars>>

\* isEmpty(): no stroke committed; in the eraser-aware variant, no pen stroke.
IsEmpty ==
  IF variant = "plain" THEN Len(strokes) = 0
  ELSE ~\E k \in 1..Len(strokes) : ~strokes[k].isEraser

\* setOverlay(fn), as analyze() calls it: the canvas not empty and a drawn
\* bounding box of at least 5 by 5 pixels just returned by getBoundingBox,
\* over which fn closes.
SetOverlay ==
  /\ lastBBox # NoCall /\ lastBBox # Null /\ ~IsEmpty
  /\ lastBBox.w >= 5 * PXU /\ lastBBox.h >= 5 * PXU
  /\ overlayFn' = [drawn |-> lastBBox]
  /\ ScheduleRedraw
  /\ lastBBox' = NoCall
  /\ ops < MaxOps /\ ops' = ops + 1
  /\ NoRedraw
  /\ UNCHANGED <<variant, strokes, currentStroke, isDrawing, activePointerId, hasPen,
                 mode, anVars, uiVars, genVars, brushVars>>

SetMode(m) ==
  /\ variant = "eraser"
  /\ mode # m
  /\ mode' = m
  /\ lastBBox' = NoCall
  /\ ops < MaxOps /\ ops' = ops + 1
  /\ NoRedraw
  /\ UNCHANGED <<variant, strokes, currentStroke, isDrawing, activePointerId, hasPen,
                 overlayFn, rafId, rafCallbacks, anVars, uiVars, genVars, brushVars>>

\* getBoundingBox.  The plain variant reads the points; the eraser-aware one
\* cancels a pending animation frame, redraws, and scans the pixels.
GetBoundingBoxPlain ==
  /\ lastBBox' = PointsBoundingBox(strokes)
  /\ UNCHANGED <<rafId, rafCallbacks, canvas, redrawsInFrame>>

\* getBoundingBox of the eraser-aware variant without its flush: it scans the
\* canvas as the last frame left it.
GetBoundingBoxEraserNoFlush ==
  /\ UNCHANGED <<rafId, rafCallbacks, canvas, redrawsInFrame>>
  /\ lastBBox' = PixelBoundingBox(DarkPixels(variant, canvas))

GetBoundingBoxEraser ==
  /\ IF rafId # 0
       THEN /\ redrawsInFrame < MaxFrameRedraws
            /\ rafCallbacks' = rafCallbacks - 1
            /\ rafId' = 0
            /\ canvas' = Painted(strokes, currentStroke, overlayFn)
            /\ redrawsInFrame' = redrawsInFrame + 1
       ELSE UNCHANGED <<rafId, rafCallbacks, canvas, redrawsInFrame>>
  /\ lastBBox' = PixelBoundingBox(DarkPixels(variant, canvas'))

GetBoundingBox ==
  /\ lastBBox = NoCall
  /\ ops < MaxOps /\ ops' = ops + 1
  /\ IF variant = "plain" THEN GetBoundingBoxPlain ELSE GetBoundingBoxEraser
  /\ UNCHANGED <<variant, strokes, currentStroke, isDrawing, activePointerId, hasPen,
                 overlayFn, mode, anVars, uiVars, genVars, brushVars>>

\* A display frame begins: the browser runs every callback it holds, and each
\* clears _rafId and redraws.
Frame ==
  /\ rafCallbacks' = 0
  /\ redrawsInFrame' = rafCallbacks
  /\ IF rafCallbacks > 0
       THEN rafId' = 0 /\ canvas' = Painted(strokes, currentStroke, overlayFn)
       ELSE UNCHANGED <<rafId, canvas>>
  /\ paintedBrush' = IF rafCallbacks > 0 THEN dcBrushSize ELSE paintedBrush
  /\ lastBBox' = NoCall
  /\ UNCHANGED ops
  /\ UNCHANGED <<variant, strokes, currentStroke, isDrawing, activePointerId, hasPen,
                 overlayFn, mode, anVars, uiVars, genVars, dcBrushSize, penSize, eraserSize>>

AnIdle ==
  /\ pc = "idle" /\ exercise = Null /\ refBBox = Null /\ drawnBBox = Null /\ drawn = <<>>
  /\ canvA = Null /\ canvB = <<>> /\ imgW = 0 /\ imgH = 0 /\ dataA = <<>> /\ dataB = <<>>
  /\ exterior = {} /\ queue = <<>> /\ head = 0 /\ counts = Null /\ result = Null

\* The page before any analysis, and the generator at rest.
UiIdle == analysis = Null /\ scores = Null /\ ratioRevealed = FALSE /\ analyzeCalls = 0

RatioIdle == difficulty = Null /\ branch = Null /\ ratio = Null

PathIdle == shownPath = Null /\ maskPath = Null

GenIdle == perimeterPerEdge = 0 /\ numInterior = Null /\ pts = <<>> /\ RatioIdle /\ PathIdle

\* The brush sizes the constructors set, nothing being stored in localStorage.
PLAIN_BRUSH_SIZE == 3

BrushesAsConstructed ==
  /\ dcBrushSize = IF variant = "plain" THEN PLAIN_BRUSH_SIZE ELSE 0
  /\ penSize = IF variant = "eraser" THEN DEFAULT_PEN_SIZE ELSE 0
  /\ eraserSize = IF variant = "eraser" THEN DEFAULT_ERASER_SIZE ELSE 0
  /\ paintedBrush = dcBrushSize

\* The constructor: no strokes, pen mode, and one _redraw of the empty canvas.
Constructed ==
  /\ strokes = <<>>
  /\ currentStroke = Null
  /\ isDrawing = FALSE
  /\ activePointerId = 0
  /\ hasPen = FALSE
  /\ overlayFn = Null
  /\ rafId = 0
  /\ mode = "pen"
  /\ canvas = Painted(<<>>, Null, Null)
  /\ rafCallbacks = 0
  /\ redrawsInFrame = 1
  /\ lastBBox = NoCall
  /\ ops = 0
  /\ BrushesAsConstructed

Init ==
  /\ variant \in {"plain", "eraser"}
  /\ Constructed
  /\ AnIdle
  /\ UiIdle
  /\ GenIdle

Next ==
  \/ \E e \in EventsAt(DownPoint) : PointerDown(e)
  \/ \E e \in EventsAt(MovePoint) : PointerMove(e)
  \/ \E e \in EventsAt(MovePoint) : PointerUp(e)
  \/ \E e \in EventsAt(MovePoint) : PointerCancel(e)
  \/ Clear
  \/ Undo
  \/ SetOverlay
  \/ \E m \in {"pen", "eraser"} : SetMode(m)
  \/ GetBoundingBox
  \/ Frame

Spec == Init /\ [][Next]_vars

\* ------------------------------------------------- setBrushSize and frames
OtherBrushSize == 5   \* a size the slider can be moved to

BrushSizes == {DEFAULT_PEN_SIZE, OtherBrushSize}

\* setBrushSize(size): the plain variant sets brushSize, the eraser-aware one
\* the size of the current mode.  Neither asks for a redraw.
SetBrushSize(size) ==
  /\ IF variant = "plain"
       THEN dcBrushSize' = size /\ UNCHANGED <<penSize, eraserSize>>
       ELSE IF mode = "pen"
         THEN penSize' = size /\ UNCHANGED <<dcBrushSize, eraserSize>>
         ELSE eraserSize' = size /\ UNCHANGED <<dcBrushSize, penSize>>
  /\ lastBBox' = NoCall
  /\ ops < MaxOps /\ ops' = ops + 1
  /\ NoRedraw
  /\ UNCHANGED <<variant, strokes, currentStroke, isDrawing, activePointerId, hasPen,
                 overlayFn, rafId, rafCallbacks, mode, paintedBrush, anVars, uiVars, genVars>>

RedrawNext == Next \/ \E size \in BrushSizes : SetBrushSize(size)

\* Every animation frame callback the browser holds is run in the end.
RedrawSpec == Init /\ [][RedrawNext]_vars /\ WF_vars(Frame)

\* ------------------------------------------------------------- shapes.js
FILL_RATIO_PCT == 82   \* FILL_RATIO, in hundredths
MaxRatio == 4          \* the largest ratio side the exercises of the model use

\* shapeBBox with the scale taken from the width alone.
ShapeBBoxFitWidth(ex) ==
  LET maxSize == (CANVAS_RES * PXU * FILL_RATIO_PCT) \div 100
      w == maxSize
      h == RoundDiv(ex.ratio.h * maxSize, ex.ratio.w)
  IN [ x |-> (CANVAS_RES * PXU - w) \div 2, y |-> (CANVAS_RES * PXU - h) \div 2,
       w |-> w, h |-> h ]

\* shapeBBox(exercise), in sub-pixel units.
ShapeBBox(ex) ==
  LET maxSize == (CANVAS_RES * PXU * FILL_RATIO_PCT) \div 100
      m == Max(ex.ratio.w, ex.ratio.h)
      w == RoundDiv(ex.ratio.w * maxSize, m)
      h == RoundDiv(ex.ratio.h * maxSize, m)
  IN [ x |-> (CANVAS_RES * PXU - w) \div 2, y |-> (CANVAS_RES * PXU - h) \div 2,
       w |-> w, h |-> h ]

\* ----------------------------------------------- analysis: shape overlap
OV_SIZE == 200
OV_PAD == 20
OV_FILL == OV_SIZE - 2 * OV_PAD

Clamp(n) == Max(0, Min(100, n))

\* v * refScale, where refScale = OV_FILL / max(refBBox.w, refBBox.h) pixels of
\* the working canvases per pixel of the drawing canvas.
RefScaled(v, ref) == RoundDiv(v * OV_FILL * PXU, Max(ref.w, ref.h))

\* The point (px, py) lies in the triangle a, b, c (on an edge counts).
InTriangle(px, py, a, b, c) ==
  LET side(p, q) == (q[1] - p[1]) * (py - p[2]) - (q[2] - p[2]) * (px - p[1])
      s1 == side(a, b)
      s2 == side(b, c)
      s3 == side(c, a)
  IN (s1 >= 0 /\ s2 >= 0 /\ s3 >= 0) \/ (s1 <= 0 /\ s2 <= 0 /\ s3 <= 0)

\* The unit square of the complex shapes' points: coordinates are kept in
\* units of 1 / Unit, half a step of the grid the random draws fall on.
Grid == 4
Unit == 2 * Grid

\* The steps a quadratic curve is flattened into.
CurveSteps == 4

\* The winding number of the closed polygon poly around (px, py), summed from
\* edge k on.
RECURSIVE Winding(_, _, _, _)
Winding(px, py, poly, k) ==
  IF k > Len(poly) THEN 0
  ELSE LET a == poly[k]
           b == poly[(k % Len(poly)) + 1]
           side == (b[1] - a[1]) * (py - a[2]) - (px - a[1]) * (b[2] - a[2])
       IN (IF a[2] <= py /\ py < b[2] /\ side > 0 THEN 1
           ELSE IF b[2] <= py /\ py < a[2] /\ side < 0 THEN -1
           ELSE 0) + Winding(px, py, poly, k + 1)

\* mapped: the points of the exercise placed in the box (x, y, w, h).
MappedPoints(points, x, y, w, h) ==
  [ k \in 1..Len(points) |->
      << x + RoundDiv(points[k].x * w, Unit), y + RoundDiv(points[k].y * h, Unit) >> ]

\* The path of the complex-rounded shape: from the midpoint before each point a
\* quadratic curve, the point its control point, to the midpoint after it; each
\* curve flattened into CurveSteps chords.
RoundedPath(mapped) ==
  LET n == Len(mapped)
      mid(a, b) == << (a[1] + b[1]) \div 2, (a[2] + b[2]) \div 2 >>
      at(p0, c, p1, t) ==
        LET u == CurveSteps - t
        IN << RoundDiv(u * u * p0[1] + 2 * t * u * c[1] + t * t * p1[1], CurveSteps * CurveSteps),
              RoundDiv(u * u * p0[2] + 2 * t * u * c[2] + t * t * p1[2], CurveSteps * CurveSteps) >>
  IN [ k \in 1..(n * CurveSteps) |->
         LET i == ((k - 1) \div CurveSteps) + 1
             t == ((k - 1) % CurveSteps) + 1
             prev == mapped[IF i = 1 THEN n ELSE i - 1]
             cur == mapped[i]
             nxt == mapped[(i % n) + 1]
         IN at(mid(prev, cur), cur, mid(cur, nxt), t) ]

\* _renderFilledNorm painting a rectangle whatever the shape type.
RenderFilledNormAsRectangle(ex, x, y, w, h) ==
  LET cols == PixelRange(x, x + w, OV_SIZE)
      rows == PixelRange(y, y + h, OV_SIZE)
      cx(i) == (2 * i + 1) * SubPx
  IN { j * OV_SIZE + i : <<i, j>> \in
         { q \in cols \X rows : /\ cx(q[1]) >= x /\ cx(q[1]) <= x + w
                                /\ cx(q[2]) >= y /\ cx(q[2]) <= y + h } }

\* _renderFilledNorm on a white canvas of side OV_SIZE: the pixels the filled
\* path darkens, those whose centre the path encloses.  A complex variant
\* without points, or any other shape type, leaves the path empty.
RenderFilledNorm(ex, x, y, w, h) ==
  LET cols == PixelRange(x, x + w, OV_SIZE)
      rows == PixelRange(y, y + h, OV_SIZE)
      cx(i) == (2 * i + 1) * SubPx
  IN IF ex.shapeType = "rectangle"
       THEN { j * OV_SIZE + i : <<i, j>> \in
                { q \in cols \X rows : /\ cx(q[1]) >= x /\ cx(q[1]) <= x + w
                                       /\ cx(q[2]) >= y /\ cx(q[2]) <= y + h } }
     ELSE IF ex.shapeType = "ellipse"
       THEN { j * OV_SIZE + i : <<i, j>> \in
                { q \in cols \X rows :
                    LET dx == 2 * cx(q[1]) - 2 * x - w
                        dy == 2 * cx(q[2]) - 2 * y - h
                    IN Abs(dx) <= w /\ Abs(dy) * w <= h * Isqrt(w * w - dx * dx) } }
     ELSE IF ex.shapeType = "triangle"
       THEN { j * OV_SIZE + i : <<i, j>> \in
                { q \in cols \X rows :
                    InTriangle(cx(q[1]), cx(q[2]), <<x + w \div 2, y>>,
                               <<x + w, y + h>>, <<x, y + h>>) } }
     ELSE IF ex.shapeType \in {"complex", "complex-rounded"} /\ ex.points # Null
       THEN LET mapped == MappedPoints(ex.points, x, y, w, h)
                path == IF ex.shapeType = "complex-rounded" THEN RoundedPath(mapped)
                        ELSE mapped
            IN { j * OV_SIZE + i : <<i, j>> \in
                   { q \in cols \X rows : Winding(cx(q[1]), cx(q[2]), path, 1) # 0 } }
     ELSE {}

\* Canvas A of computeShapeOverlap, as the call that paints it: the reference
\* at refScale, centred on a white canvas.
CanvasA(ex, ref) ==
  LET half == (OV_SIZE * PXU) \div 2
      rw == RefScaled(ref.w, ref)
      rh == RefScaled(ref.h, ref)
  IN [ exercise |-> ex, x |-> half - rw \div 2, y |-> half - rh \div 2, w |-> rw, h |-> rh ]

\* A stroke point on canvas B: p * refScale + (half - drawnBBox.c * refScale).
ToCanvasB(p, ref, box) ==
  LET half == (OV_SIZE * PXU) \div 2
  IN [ x |-> half + RefScaled(p.x - box.cx, ref),
       y |-> half + RefScaled(p.y - box.cy, ref) ]

\* Canvas B of computeShapeOverlap, as the paths the loop over the strokes
\* hands to the context.
CanvasB(ss, ref, box) ==
  [ k \in 1..Len(ss) |->
      [ i \in 1..Len(ss[k].points) |-> ToCanvasB(ss[k].points[i], ref, box) ] ]

\* What one path darkens on canvas B: black, line width 4, round caps and
\* joins; a one-point stroke is a disc of radius 2; an empty one is skipped.
StrokeOnB(path) ==
  IF Len(path) = 0 THEN {}
  ELSE IF Len(path) = 1
    THEN DiscPixels(path[1], 2 * PXU, OV_SIZE)
    ELSE UNION { SegmentPixels(path[i - 1], path[i], 2 * PXU, OV_SIZE) : i \in 2..Len(path) }

\* The dark pixels of the two working canvases.
InkA(cA) == RenderFilledNorm(cA.exercise, cA.x, cA.y, cA.w, cA.h)
InkB(cB) == UNION { StrokeOnB(cB[k]) : k \in 1..Len(cB) }

\* getImageData of a canvas painted black on white: the red channel.
ImageData(dark, n) ==
  LET blank == Cardinality(dark) = 0
  IN [ i \in 0..(n - 1) |-> IF ~blank /\ i \in dark THEN 0 ELSE 255 ]

\* The counting loop of computeShapeOverlap.
IoUCounts(dA, dB, ext, n) ==
  LET inRef(i) == dA[i] < DARK
      inDrawn(i) == dB[i] < DARK \/ i \notin ext
  IN [ intersection |-> Cardinality({ i \in 0..(n - 1) : inRef(i) /\ inDrawn(i) }),
       union |-> Cardinality({ i \in 0..(n - 1) : inRef(i) \/ inDrawn(i) }) ]

\* The score with the quotient truncated instead of rounded.
ShapeVerdictTruncated(c) ==
  LET shapeScore == IF c.union = 0 THEN 0 ELSE Clamp((100 * c.intersection) \div c.union)
  IN [ shapeScore |-> shapeScore,
       shapeDetail |-> IF shapeScore >= 85 THEN "good match"
                       ELSE IF shapeScore >= 60 THEN "some deviation"
                       ELSE "shape mismatch" ]

\* The verdict with 'good match' starting above 85 instead of at 85.
ShapeVerdictAbove85(c) ==
  LET shapeScore == IF c.union = 0 THEN 0
                    ELSE Clamp(RoundDiv(100 * c.intersection, c.union))
  IN [ shapeScore |-> shapeScore,
       shapeDetail |-> IF shapeScore > 85 THEN "good match"
                       ELSE IF shapeScore >= 60 THEN "some deviation"
                       ELSE "shape mismatch" ]

\* shapeScore and shapeDetail of computeShapeOverlap.
ShapeVerdict(c) ==
  LET shapeScore == IF c.union = 0 THEN 0
                    ELSE Clamp(RoundDiv(100 * c.intersection, c.union))
  IN [ shapeScore |-> shapeScore,
       shapeDetail |-> IF shapeScore >= 85 THEN "good match"
                       ELSE IF shapeScore >= 60 THEN "some deviation"
                       ELSE "shape mismatch" ]

\* ---------------------------------------------------- _floodFillExterior
\* enqueue(idx) without the test of the mark: a background pixel is pushed
\* every time it is offered.
EnqueueUnchecked(st, data, idx) ==
  IF data[idx] >= DARK
    THEN [exterior |-> st.exterior \cup {idx}, queue |-> Append(st.queue, idx)]
    ELSE st

\* enqueue(idx), on the exterior marks and the worklist.
Enqueue(st, data, idx) ==
  IF idx \notin st.exterior /\ data[idx] >= DARK
    THEN [exterior |-> st.exterior \cup {idx}, queue |-> Append(st.queue, idx)]
    ELSE st

RECURSIVE EnqueueAll(_, _, _, _)
EnqueueAll(st, data, idxs, k) ==
  IF k > Len(idxs) THEN st ELSE EnqueueAll(Enqueue(st, data, idxs[k]), data, idxs, k + 1)

\* The two seeding loops, in the order of their enqueue calls.
SeedOrder(w, h) ==
  [ k \in 1..(2 * w) |-> IF k % 2 = 1 THEN (k - 1) \div 2 ELSE (h - 1) * w + (k - 2) \div 2 ]
  \o [ k \in 1..(2 * Max(0, h - 2)) |->
         IF k % 2 = 1 THEN (1 + (k - 1) \div 2) * w ELSE (1 + (k - 2) \div 2) * w + w - 1 ]

\* The loop body without its last line: the neighbour below is never offered.
NeighbourOrderNoDown(idx, w, h) ==
  LET x == idx % w
      y == idx \div w
  IN (IF x > 0 THEN <<idx - 1>> ELSE <<>>) \o (IF x < w - 1 THEN <<idx + 1>> ELSE <<>>)
     \o (IF y > 0 THEN <<idx - w>> ELSE <<>>)

\* The neighbours the loop body offers to enqueue, in its order.
NeighbourOrder(idx, w, h) ==
  LET x == idx % w
      y == idx \div w
  IN (IF x > 0 THEN <<idx - 1>> ELSE <<>>) \o (IF x < w - 1 THEN <<idx + 1>> ELSE <<>>)
     \o (IF y > 0 THEN <<idx - w>> ELSE <<>>) \o (IF y < h - 1 THEN <<idx + w>> ELSE <<>>)

\* The loop of _floodFillExterior, one worklist entry at a time.
FloodSeed ==
  /\ pc = "seed"
  /\ LET st == EnqueueAll([exterior |-> {}, queue |-> <<>>], dataB, SeedOrder(imgW, imgH), 1)
     IN exterior' = st.exterior /\ queue' = st.queue
  /\ head' = 0
  /\ pc' = "loop"
  /\ UNCHANGED <<exercise, refBBox, drawnBBox, drawn, canvA, canvB, imgW, imgH, dataA, dataB,
                 counts, result, dcVars, uiVars, genVars, brushVars>>

FloodDequeue ==
  /\ pc = "loop"
  /\ head < Len(queue)
  /\ LET idx == queue[head + 1]
         st == EnqueueAll([exterior |-> exterior, queue |-> queue], dataB,
                          NeighbourOrder(idx, imgW, imgH), 1)
     IN exterior' = st.exterior /\ queue' = st.queue
  /\ head' = head + 1
  /\ UNCHANGED <<pc, exercise, refBBox, drawnBBox, drawn, canvA, canvB, imgW, imgH, dataA,
                 dataB, counts, result, dcVars, uiVars, genVars, brushVars>>

FloodReturn ==
  /\ pc = "loop"
  /\ head >= Len(queue)
  /\ pc' = "count"
  /\ UNCHANGED <<exercise, refBBox, drawnBBox, drawn, canvA, canvB, imgW, imgH, dataA, dataB,
                 exterior, queue, head, counts, result, dcVars, uiVars, genVars, brushVars>>

\* The counting loop on the bitmaps and the marks the flood left.
CountPixels ==
  /\ pc = "count"
  /\ counts' = IoUCounts(dataA, dataB, exterior, imgW * imgH)
  /\ pc' = "counted"
  /\ UNCHANGED <<exercise, refBBox, drawnBBox, drawn, canvA, canvB, imgW, imgH, dataA, dataB,
                 exterior, queue, head, result, dcVars, uiVars, genVars, brushVars>>

\* The score, the verdict and the return of computeShapeOverlap.
Score ==
  /\ pc = "counted"
  /\ result' = ShapeVerdict(counts)
  /\ pc' = "done"
  /\ UNCHANGED <<exercise, refBBox, drawnBBox, drawn, canvA, canvB, imgW, imgH, dataA, dataB,
                 exterior, queue, head, counts, dcVars, uiVars, genVars, brushVars>>

\* _floodFillExterior as a function of its arguments.  The worklist is taken
\* a wave at a time: the seeds first, then everything pushed while the wave
\* before was taken.  The marks are those of the entry-by-entry loop.
Neighbours(idx, w, h) ==
  LET x == idx % w
      y == idx \div w
  IN (IF x > 0 THEN {idx - 1} ELSE {}) \cup (IF x < w - 1 THEN {idx + 1} ELSE {})
     \cup (IF y > 0 THEN {idx - w} ELSE {}) \cup (IF y < h - 1 THEN {idx + w} ELSE {})

RECURSIVE FloodWaves(_, _, _, _, _)
FloodWaves(ext, wave, data, w, h) ==
  IF Cardinality(wave) = 0 \/ Cardinality(ext) = w * h THEN ext
  ELSE LET next == { q \in UNION { Neighbours(p, w, h) : p \in wave } :
                       q \notin ext /\ data[q] >= DARK }
       IN FloodWaves(ext \cup next, next, data, w, h)

FloodFillExterior(data, w, h) ==
  LET seeds == { i \in 0..(w * h - 1) :
                   /\ (i % w = 0 \/ i % w = w - 1 \/ i \div w = 0 \/ i \div w = h - 1)
                   /\ data[i] >= DARK }
  IN FloodWaves(seeds, seeds, data, w, h)

\* Canvas A and canvas B of computeShapeOverlap.
RenderA ==
  /\ pc = "start"
  /\ canvA' = CanvasA(exercise, refBBox)
  /\ pc' = "A"
  /\ UNCHANGED <<exercise, refBBox, drawnBBox, drawn, canvB, imgW, imgH, dataA, dataB,
                 exterior, queue, head, counts, result, dcVars, uiVars, genVars, brushVars>>

RenderB ==
  /\ pc = "A"
  /\ canvB' = CanvasB(drawn, refBBox, drawnBBox)
  /\ pc' = "B"
  /\ UNCHANGED <<exercise, refBBox, drawnBBox, drawn, canvA, imgW, imgH, dataA, dataB,
                 exterior, queue, head, counts, result, dcVars, uiVars, genVars, brushVars>>

\* getImageData of both canvases, the flood fill of canvas B and the counting
\* loop.
PixelIoU ==
  /\ pc = "B"
  /\ LET imgA == ImageData(InkA(canvA), imgW * imgH)
         imgB == ImageData(InkB(canvB), imgW * imgH)
     IN counts' = IoUCounts(imgA, imgB, FloodFillExterior(imgB, imgW, imgH), imgW * imgH)
  /\ pc' = "counted"
  /\ UNCHANGED <<exercise, refBBox, drawnBBox, drawn, canvA, canvB, imgW, imgH, dataA, dataB,
                 exterior, queue, head, result, dcVars, uiVars, genVars, brushVars>>

\* ------------------------------------------- the verdict on small counts
MaxUnion == 20   \* the largest pixel count of the union

\* Counts the counting loop can end with: intersection <= union.
PixelCounts ==
  { c \in [intersection : 0..MaxUnion, union : 0..MaxUnion] : c.intersection <= c.union }

VerdictInit ==
  /\ variant = "plain"
  /\ Constructed
  /\ GenIdle
  /\ UiIdle
  /\ pc = "counted"
  /\ exercise = Null /\ refBBox = Null /\ drawnBBox = Null /\ drawn = <<>>
  /\ canvA = Null /\ canvB = <<>> /\ imgW = 0 /\ imgH = 0 /\ dataA = <<>> /\ dataB = <<>>
  /\ exterior = {} /\ queue = <<>> /\ head = 0 /\ result = Null
  /\ counts \in PixelCounts

VerdictNext == Score

VerdictSpec == VerdictInit /\ [][VerdictNext]_vars

\* ------------------------------------- _floodFillExterior on small bitmaps
FloodW == 4
FloodH == 3
MaxInk == 6     \* dark pixels of a small bitmap

\* Bitmaps whose pixels sit on either side of the threshold.
FloodBitmaps ==
  { d \in [0..(FloodW * FloodH - 1) -> {DARK - 1, DARK}] :
      Cardinality({ i \in DOMAIN d : d[i] < DARK }) <= MaxInk }

\* Reference masks: none, the pixels off the top row and left column, all.
RefMasks ==
  { {}, { i \in 0..(FloodW * FloodH - 1) : i % FloodW >= 1 /\ i \div FloodW >= 1 },
    0..(FloodW * FloodH - 1) }

FloodInit ==
  /\ variant = "plain"
  /\ Constructed
  /\ UiIdle
  /\ GenIdle
  /\ pc = "seed"
  /\ exercise = Null /\ refBBox = Null /\ drawnBBox = Null /\ drawn = <<>>
  /\ canvA = Null /\ canvB = <<>>
  /\ imgW = FloodW /\ imgH = FloodH
  /\ dataA \in { ImageData(m, FloodW * FloodH) : m \in RefMasks }
  /\ dataB \in FloodBitmaps
  /\ exterior = {} /\ queue = <<>> /\ head = 0 /\ counts = Null /\ result = Null

FloodNext == FloodSeed \/ FloodDequeue \/ FloodReturn \/ CountPixels \/ Score

FloodSpec == FloodInit /\ [][FloodNext]_vars

\* The loop of the flood is synchronous code: once entered it keeps running.
FloodFairSpec == FloodInit /\ [][FloodNext]_vars /\ WF_vars(FloodDequeue \/ FloodReturn)

\* --------------------------------- computeShapeOverlap on traced exercises
Ratios == { <<1, 1>>, <<MaxRatio, 1>>, <<1, MaxRatio>> }

Exercises ==
  { [shapeType |-> t, ratio |-> [w |-> r[1], h |-> r[2]], points |-> Null] :
      t \in {"rectangle", "triangle"}, r \in Ratios }

Pt(x, y) == [x |-> x, y |-> y, pressure |-> 1]

\* The corners of the exercise's shape placed in box b, in drawing order.
Corners(ex, b) ==
  IF ex.shapeType = "rectangle"
    THEN << Pt(b.x, b.y), Pt(b.x + b.w, b.y), Pt(b.x + b.w, b.y + b.h), Pt(b.x, b.y + b.h) >>
    ELSE << Pt(b.x + b.w \div 2, b.y), Pt(b.x + b.w, b.y + b.h), Pt(b.x, b.y + b.h) >>

\* One closed stroke along the outline of the shape placed in box b.
Outline(ex, b) == << [points |-> Append(Corners(ex, b), Corners(ex, b)[1])] >>

\* The same stroke lifted before the last side is drawn.
OpenOutline(ex, b) == << [points |-> Corners(ex, b)] >>

\* A tap at the centre of box b.
Dot(b) == [points |-> << Pt(b.x + b.w \div 2, b.y + b.h \div 2) >>]

\* The exercise's ratio fitted to the whole drawing canvas.
FullBox(ex) ==
  LET size == CANVAS_RES * PXU
      m == Max(ex.ratio.w, ex.ratio.h)
      w == RoundDiv(ex.ratio.w * size, m)
      h == RoundDiv(ex.ratio.h * size, m)
  IN [x |-> (size - w) \div 2, y |-> (size - h) \div 2, w |-> w, h |-> h]

\* An exact trace of the reference, the trace left open, the trace with a tap
\* inside it, and the same shape drawn as large as the canvas allows.
Drawings(ex) ==
  { Outline(ex, ShapeBBox(ex)), OpenOutline(ex, ShapeBBox(ex)),
    Append(Outline(ex, ShapeBBox(ex)), Dot(ShapeBBox(ex))), Outline(ex, FullBox(ex)) }

OverlapInit ==
  /\ variant = "plain"
  /\ Constructed
  /\ UiIdle
  /\ GenIdle
  /\ pc = "start"
  /\ exercise \in Exercises
  /\ refBBox = ShapeBBox(exercise)
  /\ drawn \in Drawings(exercise)
  /\ drawnBBox = PointsBoundingBox(drawn)
  /\ canvA = Null /\ canvB = <<>>
  /\ imgW = OV_SIZE /\ imgH = OV_SIZE
  /\ dataA = <<>> /\ dataB = <<>>
  /\ exterior = {} /\ queue = <<>> /\ head = 0 /\ counts = Null /\ result = Null

OverlapNext == RenderA \/ RenderB \/ PixelIoU \/ Score

OverlapSpec == OverlapInit /\ [][OverlapNext]_vars

\* ------------------------------------------- shapeBBox on generated ratios
MaxSide == 10   \* the largest ratio side generateRatio is taken to draw

\* The exercises createExercise returns, as far as shapeBBox reads them: w : h
\* with whole sides.  A ratio with one decimal place, 1.5 : 2.3, gets the box
\* of 15 : 23, shapeBBox being unchanged when both sides are scaled alike.
RatioExercises ==
  { [shapeType |-> "rectangle", ratio |-> [w |-> rw, h |-> rh], points |-> Null] :
      rw \in 1..MaxSide, rh \in 1..MaxSide }

ShapeBBoxInit ==
  /\ variant = "plain"
  /\ Constructed
  /\ UiIdle
  /\ GenIdle
  /\ pc = "created"
  /\ exercise \in RatioExercises
  /\ refBBox = Null /\ drawnBBox = Null /\ drawn = <<>>
  /\ canvA = Null /\ canvB = <<>> /\ imgW = 0 /\ imgH = 0 /\ dataA = <<>> /\ dataB = <<>>
  /\ exterior = {} /\ queue = <<>> /\ head = 0 /\ counts = Null /\ result = Null

\* refBBox = renderShape(refCtx, exercise), which returns shapeBBox(exercise).
RenderShape ==
  /\ pc = "created"
  /\ refBBox' = ShapeBBox(exercise)
  /\ pc' = "rendered"
  /\ UNCHANGED <<exercise, drawnBBox, drawn, canvA, canvB, imgW, imgH, dataA, dataB,
                 exterior, queue, head, counts, result, dcVars, uiVars, genVars, brushVars>>

ShapeBBoxNext == RenderShape

ShapeBBoxSpec == ShapeBBoxInit /\ [][ShapeBBoxNext]_vars

\* -------------------------------------------------- generateComplexPoints
MaxDraws == 8   \* the coordinates one call draws with Math.random()

\* Math.random(), on the grid: k / Grid for k in 0..Grid-1, in units of 1 / Unit.
Randoms == { 2 * k : k \in 0..(Grid - 1) }

\* atan2(p.y - 0.5, p.x - 0.5) without the arc tangent.  The angles fall into
\* the open lower half turn (-pi, 0), the value 0 (east of the centre, and the
\* centre itself: atan2(0, 0) = 0), the open upper half turn (0, pi), and pi
\* (west of the centre); inside an open half turn the cross product orders
\* them.
AngleClass(p) ==
  IF p.y < Grid THEN 0
  ELSE IF p.y > Grid THEN 2
  ELSE IF p.x >= Grid THEN 1 ELSE 3

AngleLess(a, b) ==
  \/ AngleClass(a) < AngleClass(b)
  \/ /\ AngleClass(a) = AngleClass(b)
     /\ AngleClass(a) \in {0, 2}
     /\ (a.x - Grid) * (b.y - Grid) - (a.y - Grid) * (b.x - Grid) > 0

\* pts.sort by the difference of the angles.  The sort is stable: points of
\* equal angle keep the order they were pushed in.
RECURSIVE InsertByAngle(_, _, _)
InsertByAngle(sorted, p, i) ==
  IF i > Len(sorted) THEN Append(sorted, p)
  ELSE IF AngleLess(p, sorted[i])
    THEN SubSeq(sorted, 1, i - 1) \o <<p>> \o SubSeq(sorted, i, Len(sorted))
    ELSE InsertByAngle(sorted, p, i + 1)

RECURSIVE SortByAngle(_)
SortByAngle(ps) ==
  IF Len(ps) = 0 THEN <<>>
  ELSE InsertByAngle(SortByAngle(SubSeq(ps, 1, Len(ps) - 1)), ps[Len(ps)], 1)

\* The normalisation without the + 0.5 that moves the box back onto [0, 1].
NormaliseNoShift(ps) ==
  LET xs == { ps[k].x : k \in 1..Len(ps) }
      ys == { ps[k].y : k \in 1..Len(ps) }
      sw == IF SetMax(xs) - SetMin(xs) = 0 THEN Unit ELSE SetMax(xs) - SetMin(xs)
      sh == IF SetMax(ys) - SetMin(ys) = 0 THEN Unit ELSE SetMax(ys) - SetMin(ys)
  IN [ k \in 1..Len(ps) |->
         [ x |-> RoundDiv((2 * ps[k].x - (SetMin(xs) + SetMax(xs))) * Unit, 2 * sw),
           y |-> RoundDiv((2 * ps[k].y - (SetMin(ys) + SetMax(ys))) * Unit, 2 * sh) ] ]

\* The normalisation to the bounding box: (p - centre) / extent + 0.5 on each
\* axis, the extent replaced by 1 when it is 0.
Normalise(ps) ==
  LET xs == { ps[k].x : k \in 1..Len(ps) }
      ys == { ps[k].y : k \in 1..Len(ps) }
      sw == IF SetMax(xs) - SetMin(xs) = 0 THEN Unit ELSE SetMax(xs) - SetMin(xs)
      sh == IF SetMax(ys) - SetMin(ys) = 0 THEN Unit ELSE SetMax(ys) - SetMin(ys)
  IN [ k \in 1..Len(ps) |->
         [ x |-> RoundDiv((2 * ps[k].x - (SetMin(xs) + SetMax(xs))) * Unit, 2 * sw) + Grid,
           y |-> RoundDiv((2 * ps[k].y - (SetMin(ys) + SetMax(ys))) * Unit, 2 * sh) + Grid ] ]

\* One pass of the first loop: a point on each edge of the unit square.
PerimeterRound ==
  /\ pc = "perimeter"
  /\ Len(pts) < 4 * perimeterPerEdge
  /\ \E a, b, c, d \in Randoms :
       pts' = pts \o << [x |-> a, y |-> 0], [x |-> Unit, y |-> b],
                        [x |-> c, y |-> Unit], [x |-> 0, y |-> d] >>
  /\ UNCHANGED <<pc, perimeterPerEdge, numInterior, exercise, refBBox, drawnBBox, drawn,
                 canvA, canvB, imgW, imgH, dataA, dataB, exterior, queue, head, counts,
                 result, dcVars, uiVars, ratioVars, pathVars, brushVars>>

\* numInterior = Math.floor(Math.random() * 7).
DrawNumInterior ==
  /\ pc = "perimeter"
  /\ Len(pts) = 4 * perimeterPerEdge
  /\ \E n \in 0..6 :
       /\ 4 * perimeterPerEdge + 2 * n <= MaxDraws
       /\ numInterior' = n
  /\ pc' = "interior"
  /\ UNCHANGED <<perimeterPerEdge, pts, exercise, refBBox, drawnBBox, drawn,
                 canvA, canvB, imgW, imgH, dataA, dataB, exterior, queue, head, counts,
                 result, dcVars, uiVars, ratioVars, pathVars, brushVars>>

\* One pass of the second loop: a point anywhere in the square.
InteriorPoint ==
  /\ pc = "interior"
  /\ Len(pts) < 4 * perimeterPerEdge + numInterior
  /\ \E x, y \in Randoms : pts' = Append(pts, [x |-> x, y |-> y])
  /\ UNCHANGED <<pc, perimeterPerEdge, numInterior, exercise, refBBox, drawnBBox, drawn,
                 canvA, canvB, imgW, imgH, dataA, dataB, exterior, queue, head, counts,
                 result, dcVars, uiVars, ratioVars, pathVars, brushVars>>

\* The sort, the normalisation and the return.
SortAndNormalise ==
  /\ pc = "interior"
  /\ Len(pts) = 4 * perimeterPerEdge + numInterior
  /\ pts' = Normalise(SortByAngle(pts))
  /\ pc' = "returned"
  /\ UNCHANGED <<perimeterPerEdge, numInterior, exercise, refBBox, drawnBBox, drawn,
                 canvA, canvB, imgW, imgH, dataA, dataB, exterior, queue, head, counts,
                 result, dcVars, uiVars, ratioVars, pathVars, brushVars>>

\* createExercise calls it with 1 for complex and 2 for complex-rounded.
ComplexInit ==
  /\ variant = "plain"
  /\ Constructed
  /\ UiIdle
  /\ pc = "perimeter"
  /\ exercise = Null /\ refBBox = Null /\ drawnBBox = Null /\ drawn = <<>>
  /\ canvA = Null /\ canvB = <<>> /\ imgW = 0 /\ imgH = 0 /\ dataA = <<>> /\ dataB = <<>>
  /\ exterior = {} /\ queue = <<>> /\ head = 0 /\ counts = Null /\ result = Null
  /\ perimeterPerEdge \in {1, 2}
  /\ numInterior = Null
  /\ pts = <<>>
  /\ RatioIdle
  /\ PathIdle

ComplexNext == PerimeterRound \/ DrawNumInterior \/ InteriorPoint \/ SortAndNormalise

ComplexSpec == ComplexInit /\ [][ComplexNext]_vars

\* ------------------------------------------------ analysis: ratio and size
\* Math.round(100 * (1 - num / den)) without the clamp.
ScoreOfDiffUnclamped(num, den) ==
  LET r0 == num % den
      r1 == (10 * r0) % den
      r2 == (10 * r1) % den
      whole == 100 * (num \div den) + 10 * ((10 * r0) \div den) + (10 * r1) \div den
  IN IF 2 * r2 <= den THEN 100 - whole ELSE 100 - whole - 1

\* clamp(Math.round(100 * (1 - num / den))) for num >= 0 and den > 0, in exact
\* arithmetic.  The quotient is taken a decimal digit at a time, so that no
\* product leaves the range of the checker's integers.
ScoreOfDiff(num, den) ==
  LET r0 == num % den
      r1 == (10 * r0) % den
      r2 == (10 * r1) % den
      whole == 100 * (num \div den) + 10 * ((10 * r0) \div den) + (10 * r1) \div den
  IN Clamp(IF 2 * r2 <= den THEN 100 - whole ELSE 100 - whole - 1)

\* analyzeDrawing measuring the size by the smaller of the two dimensions.
AnalyzeDrawingBySmallerSide(drawnBox, ref) ==
  LET ratioScore == ScoreOfDiff(Abs(drawnBox.w * ref.h - ref.w * drawnBox.h),
                                ref.w * drawnBox.h)
      drawnMin == Min(drawnBox.w, drawnBox.h)
      refMin == Min(ref.w, ref.h)
      sizeScore == ScoreOfDiff(Abs(drawnMin - refMin), refMin)
  IN [ ratioScore |-> ratioScore, sizeScore |-> sizeScore,
       overallScore |-> Clamp(RoundDiv(6 * ratioScore + 4 * sizeScore, 10)) ]

\* analyzeDrawing without Math.abs around the difference of the ratios.
AnalyzeDrawingSigned(drawnBox, ref) ==
  LET ratioScore == ScoreOfDiff(drawnBox.w * ref.h - ref.w * drawnBox.h,
                                ref.w * drawnBox.h)
      drawnMax == Max(drawnBox.w, drawnBox.h)
      refMax == Max(ref.w, ref.h)
      sizeScore == ScoreOfDiff(Abs(drawnMax - refMax), refMax)
  IN [ ratioScore |-> ratioScore, sizeScore |-> sizeScore,
       overallScore |-> Clamp(RoundDiv(6 * ratioScore + 4 * sizeScore, 10)) ]

\* analyzeDrawing(drawnBBox, refBBox).  ratioDiff is
\* |dw/dh - rw/rh| / (rw/rh) = |dw*rh - rw*dh| / (rw*dh).  The detail texts and
\* the hint are display strings made of the same numbers and are left out.
AnalyzeDrawing(drawnBox, ref) ==
  LET ratioScore == ScoreOfDiff(Abs(drawnBox.w * ref.h - ref.w * drawnBox.h),
                                ref.w * drawnBox.h)
      drawnMax == Max(drawnBox.w, drawnBox.h)
      refMax == Max(ref.w, ref.h)
      sizeScore == ScoreOfDiff(Abs(drawnMax - refMax), refMax)
  IN [ ratioScore |-> ratioScore, sizeScore |-> sizeScore,
       overallScore |-> Clamp(RoundDiv(6 * ratioScore + 4 * sizeScore, 10)) ]

\* ------------------------------------------------------------ generateRatio
RandBits == 10             \* Math.random() is a multiple of 2^-RandBits in [0, 1)
RandDen == 2 ^ RandBits
RatioRandoms == 0..(RandDen - 1)   \* the numerators of Math.random()
Tenth == 10                \* numbers are held in tenths

\* Math.floor(Math.random() * n) + 1 with Math.round in place of Math.floor.
RandomIntRounded(r, n) == RoundDiv(r * n, RandDen) + 1

\* Math.floor(Math.random() * n) + 1.
RandomInt(r, n) == (r * n) \div RandDen + 1

\* (num / den).toFixed(1): the decimal string of the nearest tenth, the larger
\* of two equally near ones.
ToFixed1(num, den) ==
  LET n == RoundDiv(Tenth * num, den)
  IN [int |-> n \div Tenth, frac |-> n % Tenth]

\* String(v) of a number of tenths v, as parseFloat(v) makes it from a number.
NumberToString(v) == [int |-> v \div Tenth, frac |-> v % Tenth]

\* parseFloat of such a string, in tenths.
ParseFloat(str) == Tenth * str.int + str.frac

\* parseFloat((Math.random() * 15 + 1).toFixed(1)).
RandomDecimal(r) == ParseFloat(ToFixed1(15 * r + RandDen, RandDen))

\* The if chain of generateRatio; for 'hard' the draw Math.random() > 0.5.
ChooseBranch ==
  /\ pc = "generateRatio"
  /\ IF difficulty = "easy" THEN branch' = "easy"
     ELSE IF difficulty = "medium" THEN branch' = "medium"
     ELSE \E r \in RatioRandoms :
            branch' = IF 2 * r > RandDen THEN "integer" ELSE "decimal"
  /\ pc' = "w"
  /\ UNCHANGED <<difficulty, ratio, perimeterPerEdge, numInterior, pts, exercise, refBBox,
                 drawnBBox, drawn, canvA, canvB, imgW, imgH, dataA, dataB, exterior, queue,
                 head, counts, result, dcVars, uiVars, pathVars, brushVars>>

\* The assignment to w or h of the branch taken, for one draw r.
Drawn(r) ==
  IF branch = "easy" THEN Tenth * RandomInt(r, 4)
  ELSE IF branch = "medium" THEN Tenth * RandomInt(r, 10)
  ELSE IF branch = "integer" THEN Tenth * RandomInt(r, 20)
  ELSE RandomDecimal(r)

DrawW ==
  /\ pc = "w"
  /\ \E r \in RatioRandoms : ratio' = [w |-> Drawn(r)]
  /\ pc' = "h"
  /\ UNCHANGED <<difficulty, branch, perimeterPerEdge, numInterior, pts, exercise, refBBox,
                 drawnBBox, drawn, canvA, canvB, imgW, imgH, dataA, dataB, exterior, queue,
                 head, counts, result, dcVars, uiVars, pathVars, brushVars>>

DrawH ==
  /\ pc = "h"
  /\ \E r \in RatioRandoms : ratio' = [w |-> ratio.w, h |-> Drawn(r)]
  /\ pc' = "return"
  /\ UNCHANGED <<difficulty, branch, perimeterPerEdge, numInterior, pts, exercise, refBBox,
                 drawnBBox, drawn, canvA, canvB, imgW, imgH, dataA, dataB, exterior, queue,
                 head, counts, result, dcVars, uiVars, pathVars, brushVars>>

\* return { w: parseFloat(w), h: parseFloat(h) }.
ReturnRatio ==
  /\ pc = "return"
  /\ ratio' = [w |-> ParseFloat(NumberToString(ratio.w)),
               h |-> ParseFloat(NumberToString(ratio.h))]
  /\ pc' = "returned"
  /\ UNCHANGED <<difficulty, branch, perimeterPerEdge, numInterior, pts, exercise, refBBox,
                 drawnBBox, drawn, canvA, canvB, imgW, imgH, dataA, dataB, exterior, queue,
                 head, counts, result, dcVars, uiVars, pathVars, brushVars>>

GenerateRatioInit ==
  /\ variant = "plain"
  /\ Constructed
  /\ UiIdle
  /\ pc = "generateRatio"
  /\ exercise = Null /\ refBBox = Null /\ drawnBBox = Null /\ drawn = <<>>
  /\ canvA = Null /\ canvB = <<>> /\ imgW = 0 /\ imgH = 0 /\ dataA = <<>> /\ dataB = <<>>
  /\ exterior = {} /\ queue = <<>> /\ head = 0 /\ counts = Null /\ result = Null
  /\ perimeterPerEdge = 0 /\ numInterior = Null /\ pts = <<>>
  /\ difficulty \in {"easy", "medium", "hard"}
  /\ branch = Null /\ ratio = Null
  /\ PathIdle

GenerateRatioNext == ChooseBranch \/ DrawW \/ DrawH \/ ReturnRatio

GenerateRatioSpec == GenerateRatioInit /\ [][GenerateRatioNext]_vars

\* ------------------------------------------ drawPath and _renderFilledNorm
\* The calls each makes on its context, in order.  A coordinate v is held as
\* the whole number PathDen * v, so that the halves and the products with the
\* points (held in units of 1 / Unit) are exact; an angle is held in quarter
\* turns, Math.PI * 2 being 4.
PathDen == 2 * Unit

\* drawPath(ctx, exercise, x, y, w, h) of the shape module.
DrawPathCommands(ex, x, y, w, h) ==
  LET X == PathDen * x
      Y == PathDen * y
      W == PathDen * w
      H == PathDen * h
      n == Len(ex.points)
      mapped == [ k \in 1..n |-> << X + 2 * ex.points[k].x * w, Y + 2 * ex.points[k].y * h >> ]
      lp == mapped[n]
      nxt(i) == mapped[(i % n) + 1]
  IN << [op |-> "beginPath", args |-> <<>>] >> \o
     (IF ex.shapeType = "rectangle"
        THEN << [op |-> "rect", args |-> <<X, Y, W, H>>] >>
      ELSE IF ex.shapeType = "ellipse"
        THEN << [op |-> "ellipse",
                 args |-> <<X + W \div 2, Y + H \div 2, W \div 2, H \div 2, 0, 0, 4>>] >>
      ELSE IF ex.shapeType = "triangle"
        THEN << [op |-> "moveTo", args |-> <<X + W \div 2, Y>>],
                [op |-> "lineTo", args |-> <<X + W, Y + H>>],
                [op |-> "lineTo", args |-> <<X, Y + H>>],
                [op |-> "closePath", args |-> <<>>] >>
      ELSE IF ex.shapeType \in {"complex", "complex-rounded"} /\ ex.points # Null
        THEN (IF ex.shapeType = "complex-rounded"
                THEN << [op |-> "moveTo",
                         args |-> <<(lp[1] + mapped[1][1]) \div 2,
                                    (lp[2] + mapped[1][2]) \div 2>>] >> \o
                     [ i \in 1..n |->
                         [op |-> "quadraticCurveTo",
                          args |-> <<mapped[i][1], mapped[i][2],
                                     (mapped[i][1] + nxt(i)[1]) \div 2,
                                     (mapped[i][2] + nxt(i)[2]) \div 2>>] ]
                ELSE << [op |-> "moveTo", args |-> mapped[1]] >> \o
                     [ i \in 1..(n - 1) |-> [op |-> "lineTo", args |-> mapped[i + 1]] ])
             \o << [op |-> "closePath", args |-> <<>>] >>
      ELSE << >>)

\* _renderFilledNorm with the apex of the triangle at the left corner.
RenderFilledNormCommandsLeftApex(ex, x, y, w, h) ==
  << [op |-> "fillStyle = 'black'", args |-> <<>>] >> \o
  (IF ex.shapeType = "triangle"
     THEN << [op |-> "beginPath", args |-> <<>>],
             [op |-> "moveTo", args |-> <<PathDen * x, PathDen * y>>],
             [op |-> "lineTo", args |-> <<PathDen * (x + w), PathDen * (y + h)>>],
             [op |-> "lineTo", args |-> <<PathDen * x, PathDen * (y + h)>>],
             [op |-> "closePath", args |-> <<>>] >>
     ELSE DrawPathCommands(ex, x, y, w, h))
  \o << [op |-> "fill", args |-> <<>>] >>

\* _renderFilledNorm(ctx, exercise, x, y, w, h) of the analyzer.
RenderFilledNormCommands(ex, x, y, w, h) ==
  LET left == PathDen * x
      top == PathDen * y
      right == PathDen * (x + w)
      bottom == PathDen * (y + h)
      n == Len(ex.points)
      mapped == [ k \in 1..n |->
                    [x |-> left + 2 * ex.points[k].x * w, y |-> top + 2 * ex.points[k].y * h] ]
      rounded ==
        << [op |-> "moveTo",
            args |-> <<(mapped[n].x + mapped[1].x) \div 2, (mapped[n].y + mapped[1].y) \div 2>>] >>
        \o [ i \in 1..n |->
               LET cur == mapped[i]
                   next == mapped[IF i = n THEN 1 ELSE i + 1]
               IN [op |-> "quadraticCurveTo",
                   args |-> <<cur.x, cur.y, (cur.x + next.x) \div 2, (cur.y + next.y) \div 2>>] ]
      straight ==
        << [op |-> "moveTo", args |-> <<mapped[1].x, mapped[1].y>>] >>
        \o [ i \in 1..(n - 1) |->
               [op |-> "lineTo", args |-> <<mapped[i + 1].x, mapped[i + 1].y>>] ]
      path ==
        CASE ex.shapeType = "rectangle" ->
               << [op |-> "rect", args |-> <<left, top, right - left, bottom - top>>] >>
          [] ex.shapeType = "ellipse" ->
               << [op |-> "ellipse",
                   args |-> <<(left + right) \div 2, (top + bottom) \div 2,
                              (right - left) \div 2, (bottom - top) \div 2, 0, 0, 4>>] >>
          [] ex.shapeType = "triangle" ->
               << [op |-> "moveTo", args |-> <<(left + right) \div 2, top>>],
                  [op |-> "lineTo", args |-> <<right, bottom>>],
                  [op |-> "lineTo", args |-> <<left, bottom>>],
                  [op |-> "closePath", args |-> <<>>] >>
          [] ex.shapeType = "complex-rounded" /\ ex.points # Null ->
               rounded \o << [op |-> "closePath", args |-> <<>>] >>
          [] ex.shapeType = "complex" /\ ex.points # Null ->
               straight \o << [op |-> "closePath", args |-> <<>>] >>
          [] OTHER -> << >>
  IN << [op |-> "fillStyle = 'black'", args |-> <<>>], [op |-> "beginPath", args |-> <<>>] >>
     \o path \o << [op |-> "fill", args |-> <<>>] >>

MaxBox == 3   \* the largest offset and size of a target rectangle

\* A four-cornered and a five-cornered outline, in units of 1 / Unit.
PathPoints ==
  { << [x |-> 0, y |-> 0], [x |-> Unit, y |-> 2], [x |-> Unit, y |-> Unit], [x |-> 3, y |-> Unit] >>,
    << [x |-> 1, y |-> 0], [x |-> Unit, y |-> 0], [x |-> Unit - 1, y |-> Grid],
       [x |-> Unit, y |-> Unit], [x |-> 0, y |-> Unit - 3] >> }

\* Every shape type and one the tracers do not know, without points; the
\* complex variants with their points.
PathExercisesWithoutPoints ==
  { [shapeType |-> t, ratio |-> [w |-> 1, h |-> 1], points |-> Null] :
      t \in {"rectangle", "ellipse", "triangle", "complex", "complex-rounded", "star"} }

PathExercisesWithPoints ==
  { [shapeType |-> t, ratio |-> [w |-> 1, h |-> 1], points |-> ps] :
      t \in {"complex", "complex-rounded"}, ps \in PathPoints }

PathBoxes == [x : 0..MaxBox, y : {0, MaxBox}, w : 1..MaxBox, h : 1..MaxBox]

PathInit ==
  /\ variant = "plain"
  /\ Constructed
  /\ UiIdle
  /\ pc = "paths"
  /\ (exercise \in PathExercisesWithoutPoints \/ exercise \in PathExercisesWithPoints)
  /\ refBBox \in PathBoxes
  /\ drawnBBox = Null /\ drawn = <<>>
  /\ canvA = Null /\ canvB = <<>> /\ imgW = 0 /\ imgH = 0 /\ dataA = <<>> /\ dataB = <<>>
  /\ exterior = {} /\ queue = <<>> /\ head = 0 /\ counts = Null /\ result = Null
  /\ perimeterPerEdge = 0 /\ numInterior = Null /\ pts = <<>>
  /\ RatioIdle
  /\ PathIdle

\* drawPath(ctx, exercise, x, y, w, h) on the screen.
TraceDrawPath ==
  /\ pc = "paths"
  /\ shownPath = Null
  /\ shownPath' =
       [calls |-> DrawPathCommands(exercise, refBBox.x, refBBox.y, refBBox.w, refBBox.h)]
  /\ UNCHANGED <<maskPath, anVars, dcVars, uiVars, ratioVars, perimeterPerEdge, numInterior,
                 pts, brushVars>>

\* _renderFilledNorm(ctx, exercise, x, y, w, h) on the offscreen canvas.
TraceRenderFilledNorm ==
  /\ pc = "paths"
  /\ maskPath = Null
  /\ maskPath' =
       [calls |-> RenderFilledNormCommands(exercise, refBBox.x, refBBox.y, refBBox.w,
                                           refBBox.h)]
  /\ UNCHANGED <<shownPath, anVars, dcVars, uiVars, ratioVars, perimeterPerEdge, numInterior,
                 pts, brushVars>>

PathNext == TraceDrawPath \/ TraceRenderFilledNorm

PathSpec == PathInit /\ [][PathNext]_vars

\* ------------------------------------------ analyzeDrawing on small boxes
MaxDim == 8   \* the largest width or height of a box handed to analyzeDrawing

\* Bounding boxes as analyzeDrawing reads them: a width and a height.
Boxes == { [w |-> bw, h |-> bh] : bw \in 1..MaxDim, bh \in 1..MaxDim }

AnalyzeDrawingInit ==
  /\ variant = "plain"
  /\ Constructed
  /\ GenIdle
  /\ pc = "boxes"
  /\ exercise = Null
  /\ refBBox \in Boxes
  /\ drawnBBox \in Boxes
  /\ drawn = <<>>
  /\ canvA = Null /\ canvB = <<>> /\ imgW = 0 /\ imgH = 0 /\ dataA = <<>> /\ dataB = <<>>
  /\ exterior = {} /\ queue = <<>> /\ head = 0 /\ counts = Null /\ result = Null
  /\ UiIdle

\* const result = analyzeDrawing(drawn, refBBox).
ApplyAnalyzeDrawing ==
  /\ pc = "boxes"
  /\ analysis' = AnalyzeDrawing(drawnBBox, refBBox)
  /\ pc' = "scored"
  /\ UNCHANGED <<exercise, refBBox, drawnBBox, drawn, canvA, canvB, imgW, imgH, dataA, dataB,
                 exterior, queue, head, counts, result, scores, ratioRevealed, analyzeCalls,
                 dcVars, genVars, brushVars>>

AnalyzeDrawingNext == ApplyAnalyzeDrawing

AnalyzeDrawingSpec == AnalyzeDrawingInit /\ [][AnalyzeDrawingNext]_vars

\* ------------------------------------------------------ main.js: analyze()
MaxAnalyzeCalls == 2

\* The overall score analyze() computes: weights 0.40, 0.25 and 0.35, in exact
\* arithmetic (the binary rounding of the three products is not modelled).
OverallScore(ratioScore, sizeScore, shapeScore) ==
  Clamp(RoundDiv(40 * ratioScore + 25 * sizeScore + 35 * shapeScore, 100))

\* { ...a, ...b }: the keys of b override those of a.
Spread(a, b) == [ k \in DOMAIN a \cup DOMAIN b |-> IF k \in DOMAIN b THEN b[k] ELSE a[k] ]

\* The argument of showScores with the spread the other way round: the
\* overallScore of analyzeDrawing wins.
ShownScoresOfAnalyzeDrawing(res, overlap) ==
  Spread([ shapeScore |-> overlap.shapeScore, shapeDetail |-> overlap.shapeDetail,
           overallScore |-> OverallScore(res.ratioScore, res.sizeScore, overlap.shapeScore) ],
         res)

\* The argument of showScores: { ...result, shapeScore, shapeDetail, overallScore }.
ShownScores(res, overlap) ==
  Spread(res,
         [ shapeScore |-> overlap.shapeScore, shapeDetail |-> overlap.shapeDetail,
           overallScore |-> OverallScore(res.ratioScore, res.sizeScore, overlap.shapeScore) ])

GetStrokes == strokes

\* analyze() with the test of drawn.w left out of its second guard.
AnalyzeNoWidthCheck ==
  /\ pc = "idle"
  /\ analyzeCalls < MaxAnalyzeCalls /\ analyzeCalls' = analyzeCalls + 1
  /\ ops < MaxOps /\ ops' = ops + 1
  /\ IF exercise = Null \/ IsEmpty
       THEN /\ lastBBox' = NoCall
            /\ UNCHANGED <<rafId, rafCallbacks, canvas, redrawsInFrame, pc, drawnBBox, drawn,
                           analysis>>
       ELSE /\ IF variant = "plain" THEN GetBoundingBoxPlain ELSE GetBoundingBoxEraser
            /\ IF lastBBox' = Null \/ lastBBox'.h < 5 * PXU
                 THEN UNCHANGED <<pc, drawnBBox, drawn, analysis>>
                 ELSE /\ analysis' = AnalyzeDrawing(lastBBox', refBBox)
                      /\ drawnBBox' = lastBBox'
                      /\ drawn' = GetStrokes
                      /\ pc' = "start"
  /\ UNCHANGED <<variant, strokes, currentStroke, isDrawing, activePointerId, hasPen,
                 overlayFn, mode, exercise, refBBox, canvA, canvB, imgW, imgH, dataA, dataB,
                 exterior, queue, head, counts, result, scores, ratioRevealed, genVars, brushVars>>

\* analyze() up to its call of computeShapeOverlap: the two guards, each
\* returning with nothing displayed, then analyzeDrawing.  getBoundingBox runs
\* only past the first guard.
Analyze ==
  /\ pc = "idle"
  /\ analyzeCalls < MaxAnalyzeCalls /\ analyzeCalls' = analyzeCalls + 1
  /\ ops < MaxOps /\ ops' = ops + 1
  /\ IF exercise = Null \/ IsEmpty
       THEN /\ lastBBox' = NoCall
            /\ UNCHANGED <<rafId, rafCallbacks, canvas, redrawsInFrame, pc, drawnBBox, drawn,
                           analysis>>
       ELSE /\ IF variant = "plain" THEN GetBoundingBoxPlain ELSE GetBoundingBoxEraser
            /\ IF lastBBox' = Null \/ lastBBox'.w < 5 * PXU \/ lastBBox'.h < 5 * PXU
                 THEN UNCHANGED <<pc, drawnBBox, drawn, analysis>>
                 ELSE /\ analysis' = AnalyzeDrawing(lastBBox', refBBox)
                      /\ drawnBBox' = lastBBox'
                      /\ drawn' = GetStrokes
                      /\ pc' = "start"
  /\ UNCHANGED <<variant, strokes, currentStroke, isDrawing, activePointerId, hasPen,
                 overlayFn, mode, exercise, refBBox, canvA, canvB, imgW, imgH, dataA, dataB,
                 exterior, queue, head, counts, result, scores, ratioRevealed, genVars, brushVars>>

\* analyze() after computeShapeOverlap has returned: the overall score,
\* showScores, revealRatio and setOverlay.
ShowResult ==
  /\ pc = "done"
  /\ scores' = ShownScores(analysis, result)
  /\ ratioRevealed' = (ratioRevealed \/ exercise # Null)
  /\ overlayFn' = [drawn |-> drawnBBox]
  /\ ScheduleRedraw
  /\ pc' = "idle"
  /\ lastBBox' = NoCall
  /\ NoRedraw
  /\ UNCHANGED <<variant, strokes, currentStroke, isDrawing, activePointerId, hasPen, mode,
                 ops, exercise, refBBox, drawnBBox, drawn, canvA, canvB, imgW, imgH, dataA,
                 dataB, exterior, queue, head, counts, result, analysis, analyzeCalls,
                 genVars, brushVars>>

\* ---------------------------------------------- analyze() on sketched canvases
\* A rectangle, a type the renderer does not know, and the two complex
\* variants without their points.
AnalyzeExercises ==
  { [shapeType |-> "rectangle", ratio |-> [w |-> 1, h |-> 1], points |-> Null],
    [shapeType |-> "star", ratio |-> [w |-> MaxRatio, h |-> 1], points |-> Null],
    [shapeType |-> "complex", ratio |-> [w |-> 1, h |-> 1], points |-> Null],
    [shapeType |-> "complex-rounded", ratio |-> [w |-> 1, h |-> MaxRatio], points |-> Null] }

PenStroke(points) ==
  [points |-> points, isEraser |-> FALSE, brushSize |-> DEFAULT_PEN_SIZE]
EraserStroke(points) ==
  [points |-> points, isEraser |-> TRUE, brushSize |-> DEFAULT_ERASER_SIZE]

\* How far to the right of the pen line, in pixels, the eraser is tapped.
EraserReach == 150

\* What the user may have left on the canvas.  Plain variant: nothing, a tap,
\* one vertical line, a trace of the reference, and a trace as large as the
\* canvas.  Eraser-aware variant: eraser strokes only, a tap
\* rubbed out, a short slanted line, and that line with a tap of the eraser
\* away from it.
Sketches(v, ex) ==
  LET b == ShapeBBox(ex)
      mid == (CANVAS_RES * PXU) \div 2
  IN IF v = "plain"
       THEN { <<>>, << Dot(b) >>,
              << [points |-> << Pt(b.x, b.y), Pt(b.x, b.y + b.h) >>] >>,
              Outline(ex, b),
              Outline(ex, FullBox(ex)) }
       ELSE { << EraserStroke(<< Pt(mid, mid) >>) >>,
              << PenStroke(<< Pt(mid, mid) >>), EraserStroke(<< Pt(mid, mid) >>) >>,
              << PenStroke(<< Pt(mid - 10 * PXU, mid - 6 * PXU),
                              Pt(mid + 10 * PXU, mid + 6 * PXU) >>) >>,
              << PenStroke(<< Pt(mid - 10 * PXU, mid - 6 * PXU),
                              Pt(mid + 10 * PXU, mid + 6 * PXU) >>),
                 EraserStroke(<< Pt(mid + EraserReach * PXU, mid) >>) >> }

\* The page some time after generate(): an exercise on display, the scores
\* reset, a sketch on the canvas; in the eraser-aware variant, tried on the
\* rectangle, the frame that will paint the last stroke is still to come.
AnalyzeInit ==
  /\ variant \in {"plain", "eraser"}
  /\ exercise \in AnalyzeExercises
  /\ variant = "eraser" => exercise.shapeType = "rectangle"
  /\ refBBox = ShapeBBox(exercise)
  /\ strokes \in Sketches(variant, exercise)
  /\ currentStroke = Null /\ isDrawing = FALSE /\ activePointerId = 0 /\ hasPen = FALSE
  /\ overlayFn = Null /\ mode = "pen"
  /\ IF variant = "plain" \/ strokes = <<>>
       THEN rafId = 0 /\ rafCallbacks = 0 /\ canvas = Painted(strokes, Null, Null)
       ELSE /\ rafId = 1 /\ rafCallbacks = 1
            /\ canvas = Painted(SubSeq(strokes, 1, Len(strokes) - 1), Null, Null)
  /\ redrawsInFrame = 0 /\ lastBBox = NoCall /\ ops = 0
  /\ BrushesAsConstructed
  /\ pc = "idle" /\ drawnBBox = Null /\ drawn = <<>>
  /\ canvA = Null /\ canvB = <<>>
  /\ imgW = OV_SIZE /\ imgH = OV_SIZE
  /\ dataA = <<>> /\ dataB = <<>>
  /\ exterior = {} /\ queue = <<>> /\ head = 0 /\ counts = Null /\ result = Null
  /\ UiIdle
  /\ GenIdle

\* Between two runs of analyze() the user may undo a stroke that is there; no
\* handler runs while analyze() does.
AnalyzeNext ==
  \/ Analyze
  \/ RenderA
  \/ RenderB
  \/ PixelIoU
  \/ Score
  \/ ShowResult
  \/ pc = "idle" /\ strokes # <<>> /\ Undo

AnalyzeSpec == AnalyzeInit /\ [][AnalyzeNext]_vars

\* ===================================================================== claims
\* What the claims speak of, stated without the worklist.
Light(data, i) == data[i] >= DARK

OnBorder(i, w, h) == i % w = 0 \/ i % w = w - 1 \/ i \div w = 0 \/ i \div w = h - 1

Adjacent(i, j, w) == Abs((i % w) - (j % w)) + Abs((i \div w) - (j \div w)) = 1

\* The light pixels joined to a pixel of S by a 4-connected path of light pixels.
RECURSIVE PathClosure(_, _, _, _)
PathClosure(S, data, w, h) ==
  LET T == S \cup { q \in 0..(w * h - 1) :
                      Light(data, q) /\ \E p \in S : Adjacent(p, q, w) }
  IN IF T = S THEN S ELSE PathClosure(T, data, w, h)

ConnectedToBorder(data, w, h) ==
  PathClosure({ i \in 0..(w * h - 1) : OnBorder(i, w, h) /\ Light(data, i) }, data, w, h)

\* The wave-at-a-time flood leaves the marks of the entry-by-entry loop.
WavesAgreeWithWorklist ==
  pc \in {"count", "counted", "done"} => exterior = FloodFillExterior(dataB, imgW, imgH)

\* C2: when _floodFillExterior returns, exterior[i] = 1 exactly for the light
\* pixels (red >= 64) joined to a light border pixel by a 4-connected path of
\* light pixels; ink and enclosed light pixels have exterior[i] = 0.
C2_ExteriorIsBorderConnected ==
  pc \in {"count", "counted", "done"} =>
    /\ exterior = ConnectedToBorder(dataB, imgW, imgH)
    /\ \A i \in exterior : Light(dataB, i)

\* C2 witness: a flood has returned on a bitmap with an enclosed light pixel,
\* and on whose contour a single light pixel would be the gap: that pixel has
\* a neighbour marked exterior.
C2_Witness ==
  /\ pc = "done"
  /\ \E i \in 0..(imgW * imgH - 1) :
       /\ Light(dataB, i) /\ i \notin exterior
       /\ \E j, k \in 0..(imgW * imgH - 1) :
            /\ Adjacent(i, j, imgW) /\ ~Light(dataB, j)
            /\ Adjacent(j, k, imgW) /\ k \in exterior

\* C2 witness of the gap: a light pixel off the border is exterior, reached
\* through its only light neighbour.
C2_GapWitness ==
  /\ pc = "done"
  /\ \E i \in exterior :
       /\ ~OnBorder(i, imgW, imgH)
       /\ Cardinality({ j \in 0..(imgW * imgH - 1) :
                          Adjacent(i, j, imgW) /\ Light(dataB, j) }) = 1

\* The masks of the IoU, stated from the bitmaps alone.
InRefMask(i) == dataA[i] < DARK
InDrawnMask(i) == dataB[i] < DARK \/ i \notin ConnectedToBorder(dataB, imgW, imgH)
Intersection == Cardinality({ i \in 0..(imgW * imgH - 1) : InRefMask(i) /\ InDrawnMask(i) })
Union == Cardinality({ i \in 0..(imgW * imgH - 1) : InRefMask(i) \/ InDrawnMask(i) })

\* C3: shapeScore is the integer nearest to 100 * intersection / union (a half
\* rounds up), lies in 0..100, and is 0 when union is 0.
C3_ScoreIsRoundedIoU ==
  pc = "done" =>
    /\ result.shapeScore \in 0..100
    /\ Union = 0 => result.shapeScore = 0
    /\ Union > 0 => /\ 2 * result.shapeScore * Union - Union <= 200 * Intersection
                    /\ 200 * Intersection < 2 * result.shapeScore * Union + Union

\* C3 witness: a score strictly between 0 and 100 that was rounded up from a
\* half or more.
C3_Witness ==
  /\ pc = "done"
  /\ result.shapeScore \in 1..99
  /\ Union > 0
  /\ result.shapeScore * Union > 100 * Intersection

\* C3 witness of the empty union: nothing in either mask, score 0.
C3_EmptyUnionWitness == pc = "done" /\ Union = 0 /\ result.shapeScore = 0

\* The drawn strokes trace the outline of the reference exactly, and the drawn
\* bounding box is the reference's.
ExactTrace ==
  /\ drawn = Outline(exercise, refBBox)
  /\ drawnBBox.minX = refBBox.x /\ drawnBBox.minY = refBBox.y
  /\ drawnBBox.w = refBBox.w /\ drawnBBox.h = refBBox.h

\* C4: for every rectangle exercise, a closed rectangle outline through the
\* corners of refBBox, with drawnBBox equal to refBBox, scores at least 95.
C4_RectangleSelfOverlap ==
  (pc = "done" /\ exercise.shapeType = "rectangle" /\ ExactTrace)
    => result.shapeScore >= 95

\* C5: for every triangle exercise, a closed polygon through the three
\* vertices of the reference triangle scores at least 85, a "good match".
C5_TriangleGoodMatch ==
  (pc = "done" /\ exercise.shapeType = "triangle" /\ ExactTrace)
    => result.shapeScore >= 85 /\ result.shapeDetail = "good match"

\* The outermost OV_PAD rows and columns of a working canvas.
InBorderPad(i) ==
  \/ i % OV_SIZE < OV_PAD \/ i % OV_SIZE >= OV_SIZE - OV_PAD
  \/ i \div OV_SIZE < OV_PAD \/ i \div OV_SIZE >= OV_SIZE - OV_PAD

\* C6: the outermost 20 rows and columns of canvas A hold no reference fill
\* and those of canvas B no stroke ink, so every border pixel of canvas B is a
\* light seed of the flood fill.
C6_BorderPadIsBackground ==
  /\ pc \in {"A", "B", "counted", "done"} => \A i \in InkA(canvA) : ~InBorderPad(i)
  /\ pc \in {"B", "counted", "done"} => \A i \in InkB(canvB) : ~InBorderPad(i)

\* ------------------------------------------------ claims on the DrawingCanvas
\* The orders a list of n strokes can be put in.
Perms(n) == { f \in [1..n -> 1..n] : \A i, j \in 1..n : f[i] = f[j] => i = j }
Permuted(ss, f) == [ k \in 1..Len(ss) |-> ss[f[k]] ]

\* What getBoundingBox returns for the committed strokes ss once they are
\* painted, with no stroke in progress and no overlay.
BoundingBoxOf(v, ss) ==
  IF v = "plain" THEN PointsBoundingBox(ss)
  ELSE PixelBoundingBox(Redraw(v, ss, Null, Null))

\* What computeShapeOverlap paints on canvas B for the strokes ss against a
\* square reference; with canvas A it decides the result.
SquareRef == ShapeBBox([shapeType |-> "rectangle", ratio |-> [w |-> 1, h |-> 1],
                        points |-> Null])
OverlapInk(ss, box) == InkB(CanvasB(ss, SquareRef, box))

HasEraserStroke(v, ss) == v = "eraser" /\ \E k \in 1..Len(ss) : ss[k].isEraser

\* C7 as stated: permuting the committed strokes changes neither the bounding
\* box getBoundingBox returns nor what computeShapeOverlap makes of them, in
\* either variant.
C7_OrderIndependent ==
  \A f \in Perms(Len(strokes)) :
    LET box == BoundingBoxOf(variant, strokes)
    IN /\ BoundingBoxOf(variant, Permuted(strokes, f)) = box
       /\ box # Null => OverlapInk(Permuted(strokes, f), box) = OverlapInk(strokes, box)

\* C7: permuting the committed strokes does not change the bounding box of the
\* plain variant, nor that of the eraser-aware variant when no stroke is an
\* eraser stroke, nor what computeShapeOverlap paints for a given drawn box.
C7_OrderIndependentWithoutEraser ==
  \A f \in Perms(Len(strokes)) :
    LET box == BoundingBoxOf(variant, strokes)
    IN /\ ~HasEraserStroke(variant, strokes)
            => BoundingBoxOf(variant, Permuted(strokes, f)) = box
       /\ box # Null => OverlapInk(Permuted(strokes, f), box) = OverlapInk(strokes, box)

\* C7 witness: two committed strokes of different extent, so that their two
\* orders differ.
C7_Witness ==
  /\ Len(strokes) >= 2
  /\ PointsBoundingBox(<<strokes[1]>>) # PointsBoundingBox(<<strokes[2]>>)
  /\ BoundingBoxOf(variant, strokes) # Null

\* C8: a step changes the committed strokes only by appending the stroke in
\* progress when the drawing ends, by removing the last stroke, or by emptying
\* the list; and a drawing that ends with a stroke in progress appends it.
C8_StrokesAppendPopClear ==
  [][ /\ \/ strokes' = strokes
         \/ /\ isDrawing /\ ~isDrawing' /\ currentStroke # Null
            /\ strokes' = Append(strokes, currentStroke)
         \/ strokes # <<>> /\ strokes' = SubSeq(strokes, 1, Len(strokes) - 1)
         \/ strokes' = <<>>
      /\ (isDrawing /\ ~isDrawing' /\ currentStroke # Null)
           => strokes' = Append(strokes, currentStroke) ]_vars

\* C8 witness: two different strokes are committed and none is in progress.
C8_Witness ==
  /\ Len(strokes) = 2 /\ strokes[1] # strokes[2]
  /\ ~isDrawing /\ currentStroke = Null

\* C9 as stated: at most one animation-frame callback is outstanding and at
\* most one _redraw runs per display frame.
C9_OneRedrawPerFrame == rafCallbacks <= 1 /\ redrawsInFrame <= 1

\* C9: at most one animation-frame callback is outstanding; the plain variant
\* redraws at most once per display frame; a redraw beyond the frame's own is
\* the flush of a getBoundingBox call of the eraser-aware variant, which takes
\* the place of the pending callback.
C9_RedrawsCoalesced ==
  /\ [](rafCallbacks <= 1 /\ (variant = "plain" => redrawsInFrame <= 1))
  /\ [][ (redrawsInFrame' # redrawsInFrame /\ redrawsInFrame' > 1)
           => /\ variant = "eraser"
              /\ lastBBox' # NoCall
              /\ rafId # 0 /\ rafId' = 0 /\ rafCallbacks' = rafCallbacks - 1
              /\ redrawsInFrame' = redrawsInFrame + 1 ]_vars

\* C9 witness: a getBoundingBox flush was the second redraw of the frame, and
\* the two pointer events since share one outstanding callback.
C9_Witness ==
  /\ variant = "eraser" /\ redrawsInFrame = 2
  /\ rafCallbacks = 1 /\ rafId # 0
  /\ currentStroke # Null /\ Len(currentStroke.points) = 2

\* box is the exact extent of the coordinates xs, ys.
IsExtent(box, xs, ys) ==
  /\ box.minX \in xs /\ box.maxX \in xs /\ \A x \in xs : box.minX <= x /\ x <= box.maxX
  /\ box.minY \in ys /\ box.maxY \in ys /\ \A y \in ys : box.minY <= y /\ y <= box.maxY
  /\ box.w = box.maxX - box.minX /\ box.h = box.maxY - box.minY
  /\ 2 * box.cx = box.minX + box.maxX /\ 2 * box.cy = box.minY + box.maxY

CommittedPoints ==
  UNION { { strokes[k].points[i] : i \in 1..Len(strokes[k].points) } : k \in 1..Len(strokes) }

\* The ink to be seen: a pixel under a pen stroke, under no eraser stroke made
\* after it, and not under the overlay.  The stroke in progress is the latest.
VisibleInk ==
  LET all == IF currentStroke # Null THEN Append(strokes, currentStroke) ELSE strokes
      px(k) == StrokePixels(all[k].points, all[k].brushSize)
      inked == UNION { px(k) : k \in { j \in 1..Len(all) : ~all[j].isEraser } }
      shown == { p \in inked :
                   \E k \in 1..Len(all) :
                     /\ ~all[k].isEraser /\ p \in px(k)
                     /\ \A j \in (k + 1)..Len(all) : all[j].isEraser => p \notin px(j) }
  IN IF overlayFn # Null THEN shown \ OverlayPixels(overlayFn) ELSE shown

\* C10: what getBoundingBox has just returned is current.  Plain variant: the
\* exact extent of the committed points, null when there are none.  Eraser-
\* aware variant: no redraw is pending any more, the canvas shows the present
\* strokes, and the box is the extent of the visible ink, null when there is
\* none.
C10_BoundingBoxIsCurrent ==
  lastBBox # NoCall =>
    IF variant = "plain"
      THEN IF CommittedPoints = {} THEN lastBBox = Null
           ELSE /\ lastBBox # Null
                /\ IsExtent(lastBBox, { p.x : p \in CommittedPoints },
                            { p.y : p \in CommittedPoints })
      ELSE /\ rafId = 0 /\ rafCallbacks = 0
           /\ canvas = Painted(strokes, currentStroke, overlayFn)
           /\ IF VisibleInk = {} THEN lastBBox = Null
              ELSE /\ lastBBox # Null
                   /\ IsExtent(lastBBox, { (p % CANVAS_RES) * PXU : p \in VisibleInk },
                               { (p \div CANVAS_RES) * PXU : p \in VisibleInk })

\* C10 witness: the eraser-aware variant returned a box smaller than the pen
\* stroke it was asked about, part of which a later eraser stroke had erased.
C10_Witness ==
  /\ variant = "eraser" /\ lastBBox # NoCall /\ lastBBox # Null
  /\ Len(strokes) = 2 /\ ~strokes[1].isEraser /\ strokes[2].isEraser
  /\ lastBBox # BoundingBoxOf(variant, <<strokes[1]>>)

\* C10 witness of the plain variant: a box over two strokes of different extent.
C10_PlainWitness ==
  /\ variant = "plain" /\ lastBBox # NoCall /\ lastBBox # Null
  /\ Len(strokes) = 2 /\ lastBBox # PointsBoundingBox(<<strokes[2]>>)

\* ---------------------------------------------------------- claims on analyze()
\* The bounding box of what is drawn: the extent of the committed points in
\* the plain variant, of the dark pixels of a fresh repaint in the other.
DrawnBoundingBox ==
  IF variant = "plain" THEN PointsBoundingBox(strokes)
  ELSE PixelBoundingBox(Redraw(variant, strokes, currentStroke, overlayFn))

\* Usable input: an exercise, a canvas that is not empty, and a drawn bounding
\* box of at least 5 by 5 pixels.
Usable ==
  /\ exercise # Null
  /\ ~IsEmpty
  /\ DrawnBoundingBox # Null
  /\ DrawnBoundingBox.w >= 5 * PXU /\ DrawnBoundingBox.h >= 5 * PXU

\* C11: every run of analyze() on usable input goes on to the scorers, with
\* the result of analyzeDrawing in hand; every other run returns at once and
\* leaves the displayed scores, the ratio reveal and the overlay as they were.
\* The scorers start in no other way.
C11_ScorersOnlyOnUsableInput ==
  [][ /\ analyzeCalls' # analyzeCalls =>
           IF Usable
             THEN pc' = "start" /\ analysis' = AnalyzeDrawing(DrawnBoundingBox, refBBox)
             ELSE pc' = "idle" /\ UNCHANGED <<scores, ratioRevealed, overlayFn, analysis, result>>
      /\ (pc' = "start" /\ pc # "start") => (analyzeCalls' # analyzeCalls /\ Usable)
      /\ (scores' # scores \/ ratioRevealed' # ratioRevealed) => pc = "done" ]_vars

\* analyze() was entered a second time on a canvas emptied since the first
\* run, and the scores of the first run are still on display.
C11_Witness ==
  /\ analyzeCalls = 2 /\ pc = "idle"
  /\ IsEmpty
  /\ scores # Null /\ ratioRevealed /\ overlayFn # Null

\* analyze() returned on a canvas that is not empty: a box too narrow, or no
\* ink left to box.
C11_NarrowWitness ==
  /\ analyzeCalls = 1 /\ pc = "idle" /\ scores = Null
  /\ ~IsEmpty
  /\ (DrawnBoundingBox = Null \/ DrawnBoundingBox.w < 5 * PXU)

\* An exercise _renderFilledNorm has no path for: a shape type outside the five
\* it knows, or a complex variant without points.
NoPathFor(ex) ==
  \/ ex.shapeType \notin {"rectangle", "ellipse", "triangle", "complex", "complex-rounded"}
  \/ ex.shapeType \in {"complex", "complex-rounded"} /\ ex.points = Null

\* C12: for an exercise whose shape type is none of rectangle, ellipse,
\* triangle, complex, complex-rounded, or a complex variant whose points are
\* null, canvas A stays white, no pixel is counted into the intersection, and
\* computeShapeOverlap returns shapeScore 0 with 'shape mismatch', whatever
\* the strokes.
C12_NoPathScoresZero ==
  NoPathFor(exercise) =>
    /\ pc \in {"A", "B", "counted", "done"} => InkA(canvA) = {}
    /\ counts # Null => counts.intersection = 0
    /\ result # Null => result = [shapeScore |-> 0, shapeDetail |-> "shape mismatch"]

\* computeShapeOverlap returned for an unknown shape type with strokes that
\* enclose an area.
C12_Witness ==
  /\ exercise.shapeType = "star"
  /\ pc = "done" /\ Len(drawn) > 0
  /\ counts.union > 0
  /\ result.shapeScore = 0 /\ result.shapeDetail = "shape mismatch"

\* The same for a complex variant whose points are null.
C12_NullPointsWitness ==
  /\ exercise.shapeType \in {"complex", "complex-rounded"} /\ exercise.points = Null
  /\ pc = "done" /\ counts.union > 0
  /\ result.shapeScore = 0

\* ------------------------------------------------------- claims on shapes.js
\* R * F, the side the larger dimension is fitted to, in sub-pixel units.
MaxSize == (CANVAS_RES * PXU * FILL_RATIO_PCT) \div 100

\* C13: for every ratio with positive sides the box of shapeBBox has w and h
\* at most R * F, the larger of the two dimensions exactly R * F, w / h equal
\* to ratio.w / ratio.h, and is centred on the R by R canvas.  Lengths lie on
\* the sub-pixel grid: the smaller side and the offsets are exact to within
\* the rounding of one grid step, and exact where the division leaves no
\* remainder.
C13_BoxFitsAndKeepsRatio ==
  pc = "rendered" =>
    LET rw == exercise.ratio.w
        rh == exercise.ratio.h
        b == refBBox
    IN /\ b.w <= MaxSize /\ b.h <= MaxSize
       /\ rw >= rh => b.w = MaxSize
       /\ rh >= rw => b.h = MaxSize
       /\ 2 * Abs(b.w * rh - b.h * rw) <= rw + rh
       /\ (rw * MaxSize) % Max(rw, rh) = 0 /\ (rh * MaxSize) % Max(rw, rh) = 0
            => b.w * rh = b.h * rw
       /\ 2 * b.x + b.w \in {CANVAS_RES * PXU - 1, CANVAS_RES * PXU}
       /\ 2 * b.y + b.h \in {CANVAS_RES * PXU - 1, CANVAS_RES * PXU}
       /\ b.w % 2 = 0 => 2 * b.x + b.w = CANVAS_RES * PXU
       /\ b.h % 2 = 0 => 2 * b.y + b.h = CANVAS_RES * PXU

\* A tall ratio: the height is the fitted side and the width the smaller one.
C13_Witness ==
  /\ pc = "rendered"
  /\ exercise.ratio.w = 1 /\ exercise.ratio.h = 4
  /\ refBBox.h = MaxSize /\ 4 * refBBox.w = MaxSize
  /\ 2 * refBBox.x + refBBox.w = CANVAS_RES * PXU

\* C14: every point set generateComplexPoints returns, for density 1 or 2 and
\* whatever was drawn, spans the unit square exactly: the least x and the
\* least y are 0, the greatest x and the greatest y are 1.
C14_SpansUnitSquare ==
  pc = "returned" =>
    LET xs == { pts[k].x : k \in 1..Len(pts) }
        ys == { pts[k].y : k \in 1..Len(pts) }
    IN /\ SetMin(xs) = 0 /\ SetMax(xs) = Unit
       /\ SetMin(ys) = 0 /\ SetMax(ys) = Unit

\* A point set with interior points has been returned.
C14_Witness ==
  /\ pc = "returned" /\ perimeterPerEdge = 1 /\ numInterior = 2 /\ Len(pts) = 6
  /\ \E k \in 1..Len(pts) : pts[k].x \notin {0, Unit} /\ pts[k].y \notin {0, Unit}

\* The dense variant has returned its two points per edge.
C14_DenseWitness ==
  /\ pc = "returned" /\ perimeterPerEdge = 2 /\ Len(pts) = 8

\* ------------------------------------------------------------ the contour
Sgn(n) == IF n > 0 THEN 1 ELSE IF n < 0 THEN -1 ELSE 0

\* Twice the signed area of the triangle a, b, c.
Turn(a, b, c) == (b.x - a.x) * (c.y - a.y) - (b.y - a.y) * (c.x - a.x)

\* c lies in the box spanned by a and b.
InSpan(a, b, c) ==
  /\ Min(a.x, b.x) <= c.x /\ c.x <= Max(a.x, b.x)
  /\ Min(a.y, b.y) <= c.y /\ c.y <= Max(a.y, b.y)

\* The segments a-b and c-d have a point in common.
SegmentsMeet(a, b, c, d) ==
  LET o1 == Sgn(Turn(a, b, c))
      o2 == Sgn(Turn(a, b, d))
      o3 == Sgn(Turn(c, d, a))
      o4 == Sgn(Turn(c, d, b))
  IN \/ o1 # o2 /\ o3 # o4
     \/ o1 = 0 /\ InSpan(a, b, c)
     \/ o2 = 0 /\ InSpan(a, b, d)
     \/ o3 = 0 /\ InSpan(c, d, a)
     \/ o4 = 0 /\ InSpan(c, d, b)

\* The edges a-b and b-c run back over each other from b.
DoublesBack(a, b, c) ==
  /\ Turn(a, b, c) = 0
  /\ (a.x - b.x) * (c.x - b.x) + (a.y - b.y) * (c.y - b.y) > 0

\* The contour with every point dropped that repeats the one before it: a
\* repeated point adds an edge of length 0 and nothing to what is drawn.
RECURSIVE Vertices(_, _)
Vertices(ps, k) ==
  IF k > Len(ps) THEN <<>>
  ELSE (IF ps[k] = ps[IF k = 1 THEN Len(ps) ELSE k - 1] THEN <<>> ELSE << ps[k] >>)
       \o Vertices(ps, k + 1)

\* A simple polygon: edges next to each other share their common end only,
\* all other edges share nothing.
Simple(v) ==
  LET n == Len(v)
      nxt(i) == (i % n) + 1
  IN /\ n >= 3
     /\ \A i \in 1..n : ~DoublesBack(v[i], v[nxt(i)], v[nxt(nxt(i))])
     /\ \A i, j \in 1..n :
          (i < j /\ nxt(i) # j /\ nxt(j) # i) =>
            ~SegmentsMeet(v[i], v[nxt(i)], v[j], v[nxt(j)])

Ascending(ps) == \A i, j \in 1..Len(ps) : i < j => ~AngleLess(ps[j], ps[i])

\* C15: every point set generateComplexPoints returns is in ascending order
\* of the angle around the centre of the square, and joined in that order and
\* closed it is a simple polygon; also with interior points on the centre or
\* at the angle of another point.
C15_AscendingAndSimple ==
  pc = "returned" => Ascending(pts) /\ Simple(Vertices(pts, 1))

\* The first half of the claim alone.
C15_Ascending == pc = "returned" => Ascending(pts)

\* The second half where no two points share an angle and none is the centre.
C15_SimpleWithoutTies ==
  (pc = "returned" /\ \A i, j \in 1..Len(pts) :
                         i # j => (AngleLess(pts[i], pts[j]) \/ AngleLess(pts[j], pts[i])))
    => Simple(Vertices(pts, 1))

\* -------------------------------------------------- claims on analyzeDrawing
\* drawnRatio - targetRatio, multiplied by drawn.h * ref.h (positive).
RatioGap(box, ref) == box.w * ref.h - ref.w * box.h

\* drawnMax - refMax.
SizeGap(box, ref) == Max(box.w, box.h) - Max(ref.w, ref.h)

\* C16: ratioScore is 100 whenever the drawn w / h equals the reference
\* w / h, whatever the drawn size, and sizeScore is 100 whenever the larger
\* drawn dimension equals the larger reference dimension; a drawn box with the
\* dimensions of the reference box scores 100 on both.
C16_ExactMatchScoresFull ==
  pc = "scored" =>
    /\ drawnBBox.w * refBBox.h = refBBox.w * drawnBBox.h => analysis.ratioScore = 100
    /\ Max(drawnBBox.w, drawnBBox.h) = Max(refBBox.w, refBBox.h) => analysis.sizeScore = 100
    /\ (drawnBBox.w = refBBox.w /\ drawnBBox.h = refBBox.h)
         => analysis.ratioScore = 100 /\ analysis.sizeScore = 100

\* The reference ratio drawn at another size: full marks for the ratio only.
C16_Witness ==
  /\ pc = "scored"
  /\ drawnBBox.w * refBBox.h = refBBox.w * drawnBBox.h
  /\ drawnBBox.w # refBBox.w
  /\ analysis.ratioScore = 100 /\ analysis.sizeScore < 100

\* The larger dimension matched with the ratio off.
C16_SizeWitness ==
  /\ pc = "scored"
  /\ Max(drawnBBox.w, drawnBBox.h) = Max(refBBox.w, refBBox.h)
  /\ drawnBBox.w * refBBox.h # refBBox.w * drawnBBox.h
  /\ analysis.sizeScore = 100 /\ analysis.ratioScore < 100

\* C17: for a fixed target ratio, of two drawn ratios the one further from the
\* target in absolute difference never gets the higher ratioScore.
C17_RatioScoreMonotone ==
  pc = "scored" =>
    \A other \in Boxes :
      Abs(RatioGap(other, refBBox)) * drawnBBox.h > Abs(RatioGap(drawnBBox, refBBox)) * other.h
        => AnalyzeDrawing(other, refBBox).ratioScore <= analysis.ratioScore

\* Two drawn ratios on either side of the target, the one below it further
\* off and scoring less.
C17_Witness ==
  /\ pc = "scored"
  /\ RatioGap(drawnBBox, refBBox) > 0 /\ analysis.ratioScore \in 1..99
  /\ \E other \in Boxes :
       /\ RatioGap(other, refBBox) < 0
       /\ Abs(RatioGap(other, refBBox)) * drawnBBox.h
            > Abs(RatioGap(drawnBBox, refBBox)) * other.h
       /\ AnalyzeDrawing(other, refBBox).ratioScore < analysis.ratioScore

\* C18: for boxes of positive dimensions ratioScore and sizeScore are whole
\* numbers from 0 to 100; each is 0 whenever its relative difference is 100%
\* or more; and a relative difference of +d scores what -d scores.
C18_ScoresClampedAndSymmetric ==
  pc = "scored" =>
    /\ analysis.ratioScore \in 0..100 /\ analysis.sizeScore \in 0..100
    /\ Abs(RatioGap(drawnBBox, refBBox)) >= refBBox.w * drawnBBox.h => analysis.ratioScore = 0
    /\ Abs(SizeGap(drawnBBox, refBBox)) >= Max(refBBox.w, refBBox.h) => analysis.sizeScore = 0
    /\ \A other \in Boxes :
         /\ RatioGap(other, refBBox) * drawnBBox.h = - RatioGap(drawnBBox, refBBox) * other.h
              => AnalyzeDrawing(other, refBBox).ratioScore = analysis.ratioScore
         /\ SizeGap(other, refBBox) = - SizeGap(drawnBBox, refBBox)
              => AnalyzeDrawing(other, refBBox).sizeScore = analysis.sizeScore

\* A drawn ratio more than twice the target: the rounded value is negative and
\* the score 0.
C18_Witness ==
  /\ pc = "scored"
  /\ RatioGap(drawnBBox, refBBox) > refBBox.w * drawnBBox.h
  /\ analysis.ratioScore = 0
  /\ Abs(SizeGap(drawnBBox, refBBox)) > Max(refBBox.w, refBBox.h)
  /\ analysis.sizeScore = 0

\* Two drawn ratios at the same distance on either side of the target, with
\* the same score between 0 and 100.
C18_SymmetryWitness ==
  /\ pc = "scored"
  /\ RatioGap(drawnBBox, refBBox) > 0 /\ analysis.ratioScore \in 1..99
  /\ \E other \in Boxes :
       RatioGap(other, refBBox) * drawnBBox.h = - RatioGap(drawnBBox, refBBox) * other.h

\* ------------------------------------------------ claims on the shown scores
\* C19: the overall score shown for a completed analysis is
\* clamp(round(0.40 * ratioScore + 0.25 * sizeScore + 0.35 * shapeScore)) of
\* the three scores of that same analysis, which are the ones shown beside it;
\* it is not the 0.6 / 0.4 overallScore of analyzeDrawing.
C19_ShownOverallIsThreeWayWeighted ==
  scores # Null =>
    /\ scores.overallScore
         = Max(0, Min(100, RoundDiv(40 * scores.ratioScore + 25 * scores.sizeScore
                                      + 35 * scores.shapeScore, 100)))
    /\ pc = "idle" =>
         /\ scores.ratioScore = analysis.ratioScore
         /\ scores.sizeScore = analysis.sizeScore
         /\ scores.shapeScore = result.shapeScore

\* A completed analysis whose shown overall score differs from the one
\* analyzeDrawing returned.
C19_Witness ==
  /\ pc = "idle" /\ scores # Null
  /\ scores.overallScore # analysis.overallScore
  /\ scores.shapeScore > 0

\* C20: shapeDetail is decided by shapeScore alone: 'good match' from 85 up,
\* 'some deviation' from 60 to 84, 'shape mismatch' below 60.
C20_DetailFollowsScore ==
  pc = "done" =>
    /\ result.shapeScore >= 85 => result.shapeDetail = "good match"
    /\ (result.shapeScore >= 60 /\ result.shapeScore < 85)
         => result.shapeDetail = "some deviation"
    /\ result.shapeScore < 60 => result.shapeDetail = "shape mismatch"

\* A score of exactly 85, the lowest 'good match'.
C20_Witness ==
  pc = "done" /\ result.shapeScore = 85 /\ result.shapeDetail = "good match"

\* The scores on either side of the lower threshold.
C20_DeviationWitness ==
  pc = "done" /\ result.shapeScore = 60 /\ result.shapeDetail = "some deviation"

C20_MismatchWitness ==
  pc = "done" /\ result.shapeScore = 59 /\ result.shapeDetail = "shape mismatch"

\* -------------------------------------------------- claims on generateRatio
\* A number of tenths that is a whole number from lo to hi.
WholeIn(v, lo, hi) == v % Tenth = 0 /\ v \div Tenth \in lo..hi

\* C21: generateRatio('easy') returns whole w and h from 1 to 4 and
\* generateRatio('medium') whole w and h from 1 to 10, whatever the random
\* source yields.
C21_EasyAndMediumRanges ==
  pc = "returned" =>
    /\ difficulty = "easy" => WholeIn(ratio.w, 1, 4) /\ WholeIn(ratio.h, 1, 4)
    /\ difficulty = "medium" => WholeIn(ratio.w, 1, 10) /\ WholeIn(ratio.h, 1, 10)

\* Both ends of both ranges are returned.
C21_Witness ==
  /\ pc = "returned" /\ difficulty = "easy"
  /\ ratio.w = 1 * Tenth /\ ratio.h = 4 * Tenth

C21_MediumWitness ==
  /\ pc = "returned" /\ difficulty = "medium"
  /\ ratio.w = 10 * Tenth /\ ratio.h = 1 * Tenth

\* C22: for 'hard' the decimal branch gives w and h of one decimal place with
\* 1 <= v < 16, never 16, and the integer branch whole numbers from 1 to 20.
C22_HardRanges ==
  pc = "returned" /\ difficulty = "hard" =>
    /\ branch = "decimal" =>
         /\ ratio.w >= 1 * Tenth /\ ratio.w < 16 * Tenth
         /\ ratio.h >= 1 * Tenth /\ ratio.h < 16 * Tenth
    /\ branch = "integer" => WholeIn(ratio.w, 1, 20) /\ WholeIn(ratio.h, 1, 20)

\* What does hold: the decimal branch stays within 1 and 16, both included,
\* and the integer branch within the whole numbers 1 to 20.
C22_DecimalUpTo16 ==
  pc = "returned" /\ difficulty = "hard" =>
    /\ branch = "decimal" =>
         /\ ratio.w >= 1 * Tenth /\ ratio.w <= 16 * Tenth
         /\ ratio.h >= 1 * Tenth /\ ratio.h <= 16 * Tenth
    /\ branch = "integer" => WholeIn(ratio.w, 1, 20) /\ WholeIn(ratio.h, 1, 20)

\* The decimal branch returning 16.
C22_SixteenReturned ==
  pc = "returned" /\ branch = "decimal" /\ ratio.w = 16 * Tenth

\* ------------------------------------------ claims on the flood's worklist
\* No index occurs twice in the worklist.
PushedOnce == \A i, j \in 1..Len(queue) : queue[i] = queue[j] => i = j

FloodRunning == pc \in {"loop", "count", "counted", "done"}

\* C23: _floodFillExterior terminates: an index is marked exterior before it
\* is pushed and so is pushed at most once, the worklist never holds more than
\* w * h entries, and the loop ends, with head at the length of the worklist.
C23_FloodTerminates ==
  /\ [](FloodRunning =>
          /\ PushedOnce
          /\ \A i \in 1..Len(queue) : queue[i] \in exterior
          /\ Len(queue) <= imgW * imgH
          /\ head <= Len(queue))
  /\ [](pc \in {"count", "counted", "done"} => head = Len(queue))
  /\ (pc = "loop" ~> pc = "count")

\* The flood of an all-background bitmap has ended with every pixel pushed.
C23_Witness ==
  pc = "count" /\ Len(queue) = imgW * imgH /\ head = Len(queue) /\ PushedOnce

\* ------------------------------------------------ claims on palm rejection
PointerEvents == EventsAt(DownPoint) \cup EventsAt(MovePoint)

\* The step is one of the four pointer handlers run on the event e.
Handles(e) == PointerDown(e) \/ PointerMove(e) \/ PointerUp(e) \/ PointerCancel(e)

StrokeUntouched ==
  /\ currentStroke' = currentStroke
  /\ strokes' = strokes
  /\ isDrawing' = isDrawing
  /\ activePointerId' = activePointerId

\* C24: in the palm-rejecting DrawingCanvas the first accepted pointer wins.
\* While a stroke is in progress no pointerdown, pointermove, pointerup or
\* pointercancel of another pointer adds a point to it, replaces it or ends
\* it; a pen pointerdown is remembered for good, and from then on no touch
\* pointerdown starts a stroke.
C24_FirstPointerWins ==
  [][variant = "eraser" =>
       \A e \in PointerEvents :
         /\ (isDrawing /\ e.pointerId # activePointerId /\ Handles(e)) => StrokeUntouched
         /\ (e.pointerType = "pen" /\ PointerDown(e)) => hasPen'
         /\ hasPen => hasPen'
         /\ (hasPen /\ e.pointerType = "touch" /\ PointerDown(e)) => StrokeUntouched]_vars

\* A stroke begun by touch is still the touch's after a pen went down during
\* it: the pen was noted and the stroke kept.
C24_Witness ==
  /\ variant = "eraser"
  /\ isDrawing /\ activePointerId = 2 /\ hasPen
  /\ currentStroke # Null /\ Len(currentStroke.points) = 2

\* With the pen noted, the canvas is idle after further events.
C24_TouchRefusedWitness ==
  /\ variant = "eraser"
  /\ hasPen /\ ~isDrawing /\ Len(strokes) = 1 /\ ops = MaxOps

\* ------------------------------------------------ claims on the two tracers
\* The calls that build the path.
PathOps ==
  {"beginPath", "rect", "ellipse", "moveTo", "lineTo", "quadraticCurveTo", "closePath"}

IsPathOp(c) == c.op \in PathOps

PathCommands(cmds) == SelectSeq(cmds, IsPathOp)

\* C25: _renderFilledNorm mirrors drawPath: for every exercise, of every shape
\* type and with or without points, and every target rectangle, both make the
\* same path calls with the same coordinates in the same order.
C25_SamePathCommands ==
  shownPath # Null /\ maskPath # Null =>
    PathCommands(maskPath.calls) = PathCommands(shownPath.calls)

\* Both have traced a rounded outline: a moveTo, a curve per point, closePath.
C25_Witness ==
  /\ shownPath # Null /\ maskPath # Null
  /\ exercise.shapeType = "complex-rounded" /\ exercise.points # Null
  /\ Len(shownPath.calls) = Len(exercise.points) + 3
  /\ Len(maskPath.calls) = Len(shownPath.calls) + 2

\* Both have left the path empty for a complex shape without points.
C25_NoPointsWitness ==
  /\ shownPath # Null /\ maskPath # Null
  /\ exercise.shapeType = "complex" /\ exercise.points = Null
  /\ Len(shownPath.calls) = 1

\* -------------------------------------------- claims on the stroke in progress
\* C26: in every reachable state of the DrawingCanvas isDrawing is true only
\* if currentStroke is not null, so that a pointermove handled while
\* isDrawing never reads the points of a null currentStroke.
C26_DrawingHasStroke == isDrawing => currentStroke # Null

\* What does hold: only clear() takes the stroke away from under isDrawing.
C26_OnlyClearDropsStroke ==
  [][(isDrawing' /\ currentStroke' = Null /\ ~(isDrawing /\ currentStroke = Null))
       => (isDrawing /\ Clear)]_vars

\* clear() has run during a stroke, in either variant.
C26_ClearedWhileDrawing == isDrawing /\ currentStroke = Null /\ variant = "eraser"

\* ---------------------------------------------------- claims on staleness
\* What the canvas shows is what a _redraw would paint now: the strokes, the
\* stroke in progress and the overlay, and in the plain variant, whose
\* _drawStroke reads this.brushSize, the strokes at the current brush size.
StrokesFresh == canvas = Painted(strokes, currentStroke, overlayFn)

BrushFresh ==
  (variant = "plain" /\ (strokes # <<>> \/ currentStroke # Null)) => paintedBrush = dcBrushSize

Fresh == StrokesFresh /\ BrushFresh

\* C27: the canvas never stays stale: after any operation that changes what a
\* redraw would paint (a pointer event, clear, undo, setOverlay, setBrushSize)
\* a _redraw painting the latest state runs in the end, every requested
\* animation frame callback being run in the end.
C27_NeverStaysStale == ~Fresh ~> Fresh

\* What does hold: strokes, stroke in progress and overlay are repainted in
\* both variants, and the eraser-aware variant never stays stale.
C27_StrokesRepainted == ~StrokesFresh ~> StrokesFresh

C27_EraserVariantRepaints == (variant = "eraser" /\ ~Fresh) ~> Fresh

\* The plain canvas showing a stroke at a brush size no longer set, with no
\* redraw requested.
C27_StaleBrush ==
  /\ variant = "plain" /\ strokes # <<>> /\ paintedBrush # dcBrushSize
  /\ rafId = 0 /\ rafCallbacks = 0

\* ------------------------------------------------- claims on the overlay
\* C28: whenever the analysis overlay is set, the committed strokes are the
\* ones that were analysed: every operation that changes the drawing after
\* analyze() has set the overlay removes it before the next redraw.
C28_ChangeDropsOverlay ==
  [][(overlayFn # Null /\ strokes' # strokes) => overlayFn' = Null]_vars

\* What does hold: a pointerdown that starts a stroke, and clear(), which
\* generate() calls, remove the overlay.
C28_StrokeStartAndClearDropOverlay ==
  [][(Clear \/ (currentStroke' # currentStroke /\ \E e \in PointerEvents : PointerDown(e)))
       => overlayFn' = Null]_vars

\* The overlay of an analysis left over a canvas that undo() has emptied.
C28_OverlayAfterUndo == overlayFn # Null /\ strokes = <<>> /\ ~isDrawing

\* --------------------------------------------------- claims on canvas B
\* The pixel i of a working canvas lies in the drawn bounding box as canvas B
\* places it, centred and scaled by refScale, widened by the half line width
\* of 2 pixels and by one pixel for the rounding of the scan.
InScaledDrawnBox(i) ==
  LET half == (OV_SIZE * PXU) \div 2
      cx == (2 * (i % OV_SIZE) + 1) * SubPx
      cy == (2 * (i \div OV_SIZE) + 1) * SubPx
      reach == 2 * PXU + PXU
  IN /\ 2 * Abs(cx - half) <= RefScaled(drawnBBox.w, refBBox) + 2 * reach
     /\ 2 * Abs(cy - half) <= RefScaled(drawnBBox.h, refBBox) + 2 * reach

\* The strokes among ss that paint ink.
RECURSIVE PenStrokesOf(_)
PenStrokesOf(ss) ==
  IF ss = <<>> THEN <<>>
  ELSE IF Head(ss).isEraser THEN PenStrokesOf(Tail(ss))
  ELSE <<Head(ss)>> \o PenStrokesOf(Tail(ss))

\* C29: in the eraser-aware variant only the strokes that are not eraser
\* strokes put ink on canvas B, so that every ink pixel of canvas B lies in
\* the scaled drawn bounding box widened by the half width of the stroke.
C29_MaskInkInsideDrawnBox ==
  (variant = "eraser" /\ pc = "B") => \A i \in InkB(canvB) : InScaledDrawnBox(i)

\* What does hold: the ink of the pen strokes lies in that box.
C29_PenInkInsideDrawnBox ==
  (variant = "eraser" /\ pc = "B") =>
    \A i \in InkB(CanvasB(PenStrokesOf(drawn), refBBox, drawnBBox)) : InScaledDrawnBox(i)

\* Canvas B painted from a pen line and a tap of the eraser that touched none
\* of it.
C29_EraserStrokeOnCanvasB ==
  /\ variant = "eraser" /\ pc = "B"
  /\ \E k \in 1..Len(drawn) : drawn[k].isEraser
  /\ \E i \in InkB(canvB) : ~InScaledDrawnBox(i)

====
